---- MODULE Spec2Model ----
(***************************************************************************)
(* Verification model of the render-graph core:                            *)
(*   - DirectedAcyclicGraph (set / validate / _dfs_cycle_detection)        *)
(*   - ScreenShaderNode.buildFragmentShader and the ScreenShaderMerge      *)
(*     optimization (added below the DAG part).                            *)
(*   - the per-frame evaluation of ScreenShaderNode and GlobeViewNode.     *)
(*   - LayeredMaterial.updateLayersUniforms and the visible property of    *)
(*     LayeredMaterial and TileMesh.                                       *)
(*   - VectorSource.loadData and its caches.                               *)
(* Texts are sequences of one-character strings, so that the regular       *)
(* expressions and concatenations of the source are computed, not assumed. *)
(***************************************************************************)
EXTENDS Integers, Sequences, FiniteSets, TLC

\* DirectedAcyclicGraph: the node table, the sink, the valid mark, and the
\* outcome of the last call
VARIABLES nodes, out_node, _valid, ret
\* Graph under optimization: its name table and subgraph outputs (graph), the
\* node objects it refers to (heap), and the outcome of the last fusion (mret)
VARIABLES graph, heap, mret

\* One ScreenShaderNode and one GlobeViewNode under per-frame evaluation: the
\* shader node's flag and user uniform names, the uniforms bound on its
\* material, its default output, the render targets constructed so far, the
\* outputs of the view node, and the outcome of the last evaluation (eret)
VARIABLES toScreenFlag, uniformNames, material, outputs, allocations, viewOutputs, eret
\* A LayeredMaterial and a TileMesh: the sampler uniforms written by
\* updateLayersUniforms, the console warnings, the _visible fields, the
\* events dispatched, and the outcome of the last call (lret)
VARIABLES samplers, warnings, _visible, dispatched, lret
\* A VectorSource: its caches by crs, the promises its fetcher returned,
\* and the outcome of the last call (sret)
VARIABLES _featuresCaches, promises, sret
\* buildFragmentShader on its own: the parts it was last called with and the
\* text it returned
VARIABLES shaderParts, builtShader

dagVars == <<nodes, out_node, _valid, ret>>
mergeVars == <<graph, heap, mret>>
evalVars == <<toScreenFlag, uniformNames, material, outputs, allocations, viewOutputs, eret>>
layerVars == <<samplers, warnings, _visible, dispatched, lret>>
sourceVars == <<_featuresCaches, promises, sret>>
buildVars == <<shaderParts, builtShader>>
vars == <<nodes, out_node, _valid, ret, graph, heap, mret,
          toScreenFlag, uniformNames, material, outputs, allocations, viewOutputs, eret,
          samplers, warnings, _visible, dispatched, lret,
          _featuresCaches, promises, sret, shaderParts, builtShader>>

-----------------------------------------------------------------------------
(* Bounds of the DAG model *)

\* longest dependency list a node may reach through pushes
MaxDeps == 2
\* depth of the JavaScript call stack: deeper recursion is a RangeError
MaxStack == 3

\* names the callers use for nodes
Names == {"a", "b"}
\* the JavaScript value null (initial out_node)
Null == "null"
\* the number 0, the key used for a falsy name
Zero == "0"

-----------------------------------------------------------------------------
(* Values *)

\* An entry of a dependencies array: a name (what set() pushes), or an
\* object carrying a name field (what _dfs_cycle_detection reads at .name).
StrDep(n) == [kind |-> "str", name |-> n]
ObjDep(n) == [kind |-> "obj", name |-> n]
DepEntries == {StrDep(n) : n \in Names} \cup {ObjDep(n) : n \in Names}

\* An instance of class Node stores its list in _dependencies: reading
\* .dependencies on it yields undefined.
NodeInstance == [cls |-> "Node", dependencies |-> <<>>]
\* Any other object handed to set(), with a dependencies array.
PlainNode(deps) == [cls |-> "Object", dependencies |-> deps]

HasDependencies(node) == node.cls = "Object"

InputNodes == {NodeInstance, PlainNode(<<>>)} \cup {PlainNode(<<d>>) : d \in DepEntries}
InputChildren == {<<>>} \cup {<<c>> : c \in Names} \cup {<<c, d>> : c \in Names, d \in Names}

EmptyMap == [k \in {} |-> NodeInstance]

Ret(op, val) == [op |-> op, val |-> val]

\* name || Object.keys(this.nodes).length : a Map has no own enumerable keys
KeyOf(name) == IF name = "" THEN Zero ELSE name

-----------------------------------------------------------------------------
(* DirectedAcyclicGraph.set *)

\* the loop over children: each child gets name pushed; a child that is not
\* registered, or that has no dependencies array, raises a TypeError and
\* keeps the pushes already made
RECURSIVE PushChildren(_, _, _, _)
PushChildren(ns, name, children, i) ==
    IF i > Len(children) THEN [ok |-> TRUE, nodes |-> ns]
    ELSE LET child == children[i] IN
         IF child \notin DOMAIN ns \/ ~HasDependencies(ns[child])
         THEN [ok |-> FALSE, nodes |-> ns]
         ELSE PushChildren(
                [ns EXCEPT ![child].dependencies = Append(@, StrDep(name))],
                name, children, i + 1)

MapSet(ns, key, node) ==
    [k \in DOMAIN ns \cup {key} |-> IF k = key THEN node ELSE ns[k]]

\* mutant: the orphan guard is missing
SetResult_NoOrphanGuard(ns, valid, name, node, children) ==
    LET pushed == PushChildren(ns, name, children, 1) IN
    IF ~pushed.ok
    THEN [val |-> "TypeError", nodes |-> pushed.nodes, valid |-> FALSE]
    ELSE [val |-> "Map", nodes |-> MapSet(pushed.nodes, KeyOf(name), node), valid |-> FALSE]

\* mutant: an insert leaves the valid mark as it was
SetResult_KeepsValid(ns, valid, name, node, children) ==
    IF ns # EmptyMap /\ ~HasDependencies(node)
    THEN [val |-> "TypeError", nodes |-> ns, valid |-> valid]
    ELSE IF ns # EmptyMap /\ node.dependencies = <<>> /\ children = <<>>
    THEN [val |-> "null", nodes |-> ns, valid |-> valid]
    ELSE LET pushed == PushChildren(ns, name, children, 1) IN
         IF ~pushed.ok
         THEN [val |-> "TypeError", nodes |-> pushed.nodes, valid |-> valid]
         ELSE [val |-> "Map", nodes |-> MapSet(pushed.nodes, KeyOf(name), node),
               valid |-> valid]

SetResult(ns, valid, name, node, children) ==
    IF ns # EmptyMap /\ ~HasDependencies(node)
    THEN \* node.dependencies is undefined: reading .length raises
         [val |-> "TypeError", nodes |-> ns, valid |-> valid]
    ELSE IF ns # EmptyMap /\ node.dependencies = <<>> /\ children = <<>>
    THEN [val |-> "null", nodes |-> ns, valid |-> valid]
    ELSE LET pushed == PushChildren(ns, name, children, 1) IN
         IF ~pushed.ok
         THEN [val |-> "TypeError", nodes |-> pushed.nodes, valid |-> FALSE]
         ELSE [val |-> "Map", nodes |-> MapSet(pushed.nodes, KeyOf(name), node),
               valid |-> FALSE]

WithinDeps(ns) == \A k \in DOMAIN ns : Len(ns[k].dependencies) <= MaxDeps

Set(name, node, children) ==
    LET r == SetResult(nodes, _valid, name, node, children) IN
    /\ WithinDeps(r.nodes)
    /\ nodes' = r.nodes
    /\ _valid' = r.valid
    /\ ret' = Ret("set", r.val)
    /\ UNCHANGED out_node
    /\ UNCHANGED <<mergeVars, evalVars, layerVars, sourceVars, buildVars>>

-----------------------------------------------------------------------------
(* DirectedAcyclicGraph.validate *)

\* dependency.name : undefined for a string
DotName(dep) == IF dep.kind = "obj" THEN dep.name ELSE "undefined"

\* the Map key a dependency entry is when passed to nodes.get: an object is
\* never a key of the Map
AsKey(dep) == IF dep.kind = "str" THEN dep.name ELSE "[object]"

\* path.remove(name): a Set has no method remove, the call raises a TypeError
PathRemove(path, name) == [ok |-> FALSE, path |-> path]

RECURSIVE _dfs_cycle_detection(_, _, _, _)
RECURSIVE DfsLoop(_, _, _, _, _)
DfsLoop(ns, name, path, depth, i) ==
    LET deps == ns[name].dependencies IN
    IF i > Len(deps)
    THEN LET rm == PathRemove(path, name) IN
         IF rm.ok THEN [res |-> "true", path |-> rm.path]
                  ELSE [res |-> "TypeError", path |-> rm.path]
    ELSE LET sub == _dfs_cycle_detection(ns, AsKey(deps[i]), path, depth + 1) IN
         IF sub.res = "true"
         THEN DfsLoop(ns, name, sub.path, depth, i + 1)
         ELSE sub

_dfs_cycle_detection(ns, name, path, depth) ==
    IF depth > MaxStack THEN [res |-> "RangeError", path |-> path]
    ELSE LET p1 == path \cup {name} IN
         IF name \notin DOMAIN ns \/ ~HasDependencies(ns[name])
         THEN [res |-> "TypeError", path |-> p1]
         ELSE IF \E i \in DOMAIN ns[name].dependencies :
                     DotName(ns[name].dependencies[i]) \in p1
         THEN [res |-> "false", path |-> p1]
         ELSE DfsLoop(ns, name, p1, depth, 1)

\* mutant: the test of the traversal's result is inverted
ValidateResult_Inverted(ns, out) ==
    LET r == _dfs_cycle_detection(ns, out, {}, 1) IN
    IF r.res = "false" THEN [val |-> "undefined", valid |-> TRUE]
    ELSE IF r.res = "true" THEN [val |-> "false", valid |-> FALSE]
    ELSE [val |-> r.res, valid |-> FALSE]

ValidateResult(ns, out) ==
    LET r == _dfs_cycle_detection(ns, out, {}, 1) IN
    IF r.res = "false" THEN [val |-> "false", valid |-> FALSE]
    ELSE IF r.res = "true" THEN [val |-> "undefined", valid |-> TRUE]
    ELSE [val |-> r.res, valid |-> FALSE]

Validate ==
    LET r == ValidateResult(nodes, out_node) IN
    /\ _valid' = r.valid
    /\ ret' = Ret("validate", r.val)
    /\ UNCHANGED <<nodes, out_node>>
    /\ UNCHANGED <<mergeVars, evalVars, layerVars, sourceVars, buildVars>>

\* out_node is a public field: the owner of the graph designates the sink
AssignOutNode(name) ==
    /\ out_node' = name
    /\ ret' = Ret("out_node", name)
    /\ UNCHANGED <<nodes, _valid>>
    /\ UNCHANGED <<mergeVars, evalVars, layerVars, sourceVars, buildVars>>

-----------------------------------------------------------------------------
\* a DirectedAcyclicGraph right after construction
DagFresh ==
    /\ out_node = Null
    /\ nodes = EmptyMap
    /\ _valid = TRUE
    /\ ret = Ret("new", "object")

\* no Graph is under optimization
MergeIdle ==
    /\ graph = [nodes |-> <<>>, outputs |-> <<>>]
    /\ heap = <<>>
    /\ mret = Ret("new", "object")

\* no node is under evaluation
EvalIdle ==
    /\ toScreenFlag = FALSE
    /\ uniformNames = <<>>
    /\ material = <<>>
    /\ outputs = <<>>
    /\ allocations = 0
    /\ viewOutputs = <<>>
    /\ eret = Ret("new", "object")

\* no material and no tile exist
LayerIdle ==
    /\ samplers = <<>>
    /\ warnings = 0
    /\ _visible = <<>>
    /\ dispatched = <<>>
    /\ lret = Ret("new", "object")

\* no source exists
SourceIdle ==
    /\ _featuresCaches = <<>>
    /\ promises = <<>>
    /\ sret = Ret("new", "object")

\* buildFragmentShader has not been called
BuildIdle ==
    /\ shaderParts = <<>>
    /\ builtShader = <<>>

DagInit == DagFresh /\ MergeIdle /\ EvalIdle /\ LayerIdle /\ SourceIdle /\ BuildIdle

DagNext ==
    \/ \E name \in Names, node \in InputNodes, children \in InputChildren :
          Set(name, node, children)
    \/ Validate
    \/ \E name \in Names : AssignOutNode(name)

SpecDag == DagInit /\ [][DagNext]_vars

-----------------------------------------------------------------------------
(* The dependency relation of a node table, for stating the claims *)

\* the node a dependency entry refers to
DepTarget(dep) == dep.name

EdgesOf(ns) ==
    UNION {{<<n, DepTarget(ns[n].dependencies[i])>> : i \in DOMAIN ns[n].dependencies} :
        n \in DOMAIN ns}

RECURSIVE Closure(_, _)
Closure(E, S) ==
    LET S2 == S \cup {e[2] : e \in {f \in E : f[1] \in S}} IN
    IF S2 = S THEN S ELSE Closure(E, S2)

\* nodes reachable from n, n included
ReachableFrom(ns, n) == Closure(EdgesOf(ns), {n})

\* edges that lie on a cycle reachable from the sink
CycleEdges(ns, out) ==
    {e \in EdgesOf(ns) : e[1] \in ReachableFrom(ns, out) /\ e[1] \in ReachableFrom(ns, e[2])}

CycleFromSink(ns, out) == CycleEdges(ns, out) # {}

\* every node reachable from the sink is registered and carries a
\* dependencies array
WellFormedFromSink(ns, out) ==
    \A n \in ReachableFrom(ns, out) : n \in DOMAIN ns /\ HasDependencies(ns[n])

FailureVals == {"null", "false", "TypeError", "RangeError"}

-----------------------------------------------------------------------------
(* Claims about DirectedAcyclicGraph *)

\* C1: whenever validate() has run on a graph in which a dependency cycle is
\* reachable from the sink, it has reported failure (returned false or
\* raised) and the graph is not marked valid.
C1_CycleFailsValidation ==
    (ret.op = "validate" /\ CycleFromSink(nodes, out_node))
        => (ret.val \in FailureVals /\ ~_valid)

C1_Witness ==
    /\ ret = Ret("validate", "false")
    /\ CycleFromSink(nodes, out_node)
    /\ ~_valid

\* C2: on every acyclic graph with a designated, registered sink, validate()
\* completes successfully and marks the graph valid.
C2_AcyclicValidates ==
    (/\ ret.op = "validate"
     /\ out_node \in DOMAIN nodes
     /\ WellFormedFromSink(nodes, out_node)
     /\ ~CycleFromSink(nodes, out_node))
        => (ret.val = "undefined" /\ _valid)

\* a zero-dependency node: new Node(uniforms, fragment) or { dependencies: [] }
IsZeroDep(node) == node = NodeInstance \/ node = PlainNode(<<>>)

\* C3: inserting a node with zero dependencies and no children into a
\* non-empty graph is rejected and leaves the node table (hence every
\* dependency list) as it was; the same insert into an empty graph is
\* accepted and registers the node.
C3_OrphanRejected ==
    [][\A name \in Names, node \in InputNodes :
          (IsZeroDep(node) /\ Set(name, node, <<>>)) =>
              IF nodes = EmptyMap
              THEN ret'.val = "Map" /\ nodes' = MapSet(EmptyMap, name, node)
              ELSE ret'.val \in {"null", "TypeError"} /\ nodes' = nodes]_vars

C3_Witness ==
    /\ ret = Ret("set", "null")
    /\ nodes # EmptyMap

\* C4: a set or validate call that fails leaves the node table and every
\* dependency list as they were before the call.
C4_FailureLeavesTable ==
    [][(ret'.op \in {"set", "validate"} /\ ret'.val \in FailureVals)
          => nodes' = nodes]_vars

\* the edge carried by the value validate() returned: the code returns the
\* bare boolean false, which carries none
ReportedEdge(r) == IF "edge" \in DOMAIN r THEN r.edge ELSE <<>>

\* C5: when validate() fails because of a cycle, it reports an edge that lies
\* on a cycle reachable from the sink.
C5_ReportsClosingEdge ==
    (ret.op = "validate" /\ ret.val = "false")
        => ReportedEdge(ret) \in CycleEdges(nodes, out_node)


-----------------------------------------------------------------------------
(* Texts: sequences of one-character strings *)

\* 'precision highp float;\n'
T_precision ==
    <<"p", "r", "e", "c", "i", "s", "i", "o", "n", " ", "h", "i", "g", "h", "p", " ", "f", "l",
      "o", "a", "t", ";", "\n">>
\* '#include <'
T_includeOpen == <<"#", "i", "n", "c", "l", "u", "d", "e", " ", "<">>
\* '>'
T_includeClose == <<">">>
\* '#define '
T_define == <<"#", "d", "e", "f", "i", "n", "e", " ">>
\* ' '
T_space == <<" ">>
\* '\n'
T_newline == <<"\n">>
\* '\n\t'
T_newlineTab == <<"\n", "\t">>
\* '\t'
T_tab == <<"\t">>
\* 'varying vec2 vUv;'
T_varying == <<"v", "a", "r", "y", "i", "n", "g", " ", "v", "e", "c", "2", " ", "v", "U", "v", ";">>
\* 'uniform sampler2D tDiffuse;'
T_uTDiffuse ==
    <<"u", "n", "i", "f", "o", "r", "m", " ", "s", "a", "m", "p", "l", "e", "r", "2", "D", " ",
      "t", "D", "i", "f", "f", "u", "s", "e", ";">>
\* 'uniform sampler2D tDepth;'
T_uTDepth ==
    <<"u", "n", "i", "f", "o", "r", "m", " ", "s", "a", "m", "p", "l", "e", "r", "2", "D", " ",
      "t", "D", "e", "p", "t", "h", ";">>
\* 'uniform vec2 resolution;'
T_uResolution ==
    <<"u", "n", "i", "f", "o", "r", "m", " ", "v", "e", "c", "2", " ", "r", "e", "s", "o", "l",
      "u", "t", "i", "o", "n", ";">>
\* 'uniform float cameraNear;'
T_uCameraNear ==
    <<"u", "n", "i", "f", "o", "r", "m", " ", "f", "l", "o", "a", "t", " ", "c", "a", "m", "e",
      "r", "a", "N", "e", "a", "r", ";">>
\* 'uniform float cameraFar;'
T_uCameraFar ==
    <<"u", "n", "i", "f", "o", "r", "m", " ", "f", "l", "o", "a", "t", " ", "c", "a", "m", "e",
      "r", "a", "F", "a", "r", ";">>
\* 'uniform '
T_uniform == <<"u", "n", "i", "f", "o", "r", "m", " ">>
\* ';'
T_semicolon == <<";">>
\* 'vec4 shader(in vec4 tex) {'
T_shaderOpen ==
    <<"v", "e", "c", "4", " ", "s", "h", "a", "d", "e", "r", "(", "i", "n", " ", "v", "e", "c",
      "4", " ", "t", "e", "x", ")", " ", "{">>
\* '    '
T_indent == <<" ", " ", " ", " ">>
\* '}'
T_braceClose == <<"}">>
\* 'void main() {'
T_mainOpen == <<"v", "o", "i", "d", " ", "m", "a", "i", "n", "(", ")", " ", "{">>
\* '    gl_FragColor = shader(texture2D(tDiffuse, vUv));'
T_entry ==
    <<" ", " ", " ", " ", "g", "l", "_", "F", "r", "a", "g", "C", "o", "l", "o", "r", " ", "=",
      " ", "s", "h", "a", "d", "e", "r", "(", "t", "e", "x", "t", "u", "r", "e", "2", "D", "(",
      "t", "D", "i", "f", "f", "u", "s", "e", ",", " ", "v", "U", "v", ")", ")", ";">>
\* '// '
T_comment == <<"/", "/", " ">>
\* 'vec4 _'
T_vec4Underscore == <<"v", "e", "c", "4", " ", "_">>
\* '_shader(vec4 tex) {'
T_shaderSig ==
    <<"_", "s", "h", "a", "d", "e", "r", "(", "v", "e", "c", "4", " ", "t", "e", "x", ")", " ",
      "{">>
\* 'return _'
T_returnUnderscore == <<"r", "e", "t", "u", "r", "n", " ", "_">>
\* '_shader(_'
T_shaderCallOpen == <<"_", "s", "h", "a", "d", "e", "r", "(", "_">>
\* '_shader(tex));'
T_shaderCallTex == <<"_", "s", "h", "a", "d", "e", "r", "(", "t", "e", "x", ")", ")", ";">>
\* 'parent_'
T_parentPrefix == <<"p", "a", "r", "e", "n", "t", "_">>
\* 'null'
T_null == <<"n", "u", "l", "l">>
\* '_'
T_underscore == <<"_">>
\* 'texture2D('
T_texture2DOpen == <<"t", "e", "x", "t", "u", "r", "e", "2", "D", "(">>
\* 'uTexture,vUv'
T_uTextureVUv == <<"u", "T", "e", "x", "t", "u", "r", "e", ",", "v", "U", "v">>
\* 'tDiffuse,vUv'
T_tDiffuseVUv == <<"t", "D", "i", "f", "f", "u", "s", "e", ",", "v", "U", "v">>
\* ')'
T_parenClose == <<")">>
\* 'renderer'
T_renderer == <<"r", "e", "n", "d", "e", "r", "e", "r">>
\* 'target'
T_target == <<"t", "a", "r", "g", "e", "t">>
\* 'float'
T_float == <<"f", "l", "o", "a", "t">>
\* 'vec2'
T_vec2 == <<"v", "e", "c", "2">>
\* 'sampler2D'
T_sampler2D == <<"s", "a", "m", "p", "l", "e", "r", "2", "D">>

\* optional values: undefined is the empty tuple, a defined value v is <<v>>
Undefined == <<>>
Some(v) == <<v>>
IsDef(o) == o # <<>>
\* o ?? d
OrElse(o, d) == IF IsDef(o) THEN o[1] ELSE d

RECURSIVE Join(_, _)
\* Array.prototype.join
Join(texts, sep) ==
    IF texts = <<>> THEN <<>>
    ELSE IF Len(texts) = 1 THEN texts[1]
    ELSE texts[1] \o sep \o Join(Tail(texts), sep)

RECURSIVE Flatten(_)
Flatten(texts) == IF texts = <<>> THEN <<>> ELSE texts[1] \o Flatten(Tail(texts))

StartsWithAt(t, i, pat) ==
    /\ i >= 1
    /\ i + Len(pat) - 1 <= Len(t)
    /\ SubSeq(t, i, i + Len(pat) - 1) = pat

IsWhitespace(c) == c \in {" ", "\n", "\t", "\r", "\f"}

\* text.replaceAll(/\s/gm, '')
StripWhitespace(t) == SelectSeq(t, LAMBDA c : ~IsWhitespace(c))

\* positions at which pat occurs in t
Occurrences(t, pat) == {i \in 1..Len(t) : StartsWithAt(t, i, pat)}

Min(S) == CHOOSE x \in S : \A y \in S : x <= y

\* String.prototype.replace with a string pattern: the first occurrence only
ReplaceFirst(t, pat, rep) ==
    IF Occurrences(t, pat) = {} THEN t
    ELSE LET i == Min(Occurrences(t, pat)) IN
         SubSeq(t, 1, i - 1) \o rep \o SubSeq(t, i + Len(pat), Len(t))

\* main.split('\n').join('\n\t'): every newline is followed by a tab
SplitJoin(t) == Flatten([i \in 1..Len(t) |-> IF t[i] = "\n" THEN T_newlineTab ELSE <<t[i]>>])

\* the regular expression /texture2D\((?!uTexture,vUv)[^)]*\)/ finds a match
MatchesOffsetSampling(t) ==
    \E i \in Occurrences(t, T_texture2DOpen) :
        LET after == i + Len(T_texture2DOpen) IN
        /\ ~StartsWithAt(t, after, T_uTextureVUv)
        /\ \E j \in after..Len(t) : t[j] = ")"

-----------------------------------------------------------------------------
(* Ordered maps (plain objects, in property order): sequences of <<key, value>> *)

OKeys(m) == {m[i][1] : i \in DOMAIN m}
OHas(m, k) == k \in OKeys(m)
OGet(m, k) == m[CHOOSE i \in DOMAIN m : m[i][1] = k][2]
\* obj[k] = v : an existing property keeps its position, a new one is appended
OSet(m, k, v) ==
    IF OHas(m, k)
    THEN [i \in DOMAIN m |-> IF m[i][1] = k THEN <<k, v>> ELSE m[i]]
    ELSE Append(m, <<k, v>>)
\* delete obj[k]
ODelete(m, k) == SelectSeq(m, LAMBDA e : e[1] # k)
\* mutant: the spread keeps the second object only
OAssign_SecondOnly(m, n) == n

RECURSIVE OAssign(_, _)
\* { ...m, ...n }
OAssign(m, n) == IF n = <<>> THEN m ELSE OAssign(OSet(m, n[1][1], n[1][2]), Tail(n))

\* Map and function helpers
MapDelete(f, k) == [x \in DOMAIN f \ {k} |-> f[x]]
MapPut(f, k, v) == [x \in DOMAIN f \cup {k} |-> IF x = k THEN v ELSE f[x]]

\* 'return tex;'
T_mainDefault == <<"r", "e", "t", "u", "r", "n", " ", "t", "e", "x", ";">>
\* 'return texture2D(tDiffuse, vUv);'
T_mainCanonical ==
    <<"r", "e", "t", "u", "r", "n", " ", "t", "e", "x", "t", "u", "r", "e", "2", "D", "(", "t",
      "D", "i", "f", "f", "u", "s", "e", ",", " ", "v", "U", "v", ")", ";">>
\* 'return texture2D(tDiffuse, vUv + u);'
T_mainOffset ==
    <<"r", "e", "t", "u", "r", "n", " ", "t", "e", "x", "t", "u", "r", "e", "2", "D", "(", "t",
      "D", "i", "f", "f", "u", "s", "e", ",", " ", "v", "U", "v", " ", "+", " ", "u", ")", ";">>
\* 'return texture2D(uTexture, vUv + 0.5);'
T_mainExempt ==
    <<"r", "e", "t", "u", "r", "n", " ", "t", "e", "x", "t", "u", "r", "e", "2", "D", "(", "u",
      "T", "e", "x", "t", "u", "r", "e", ",", " ", "v", "U", "v", " ", "+", " ", "0", ".", "5",
      ")", ";">>
\* 'vec4 c = tex;\nreturn c * g;'
T_mainLines ==
    <<"v", "e", "c", "4", " ", "c", " ", "=", " ", "t", "e", "x", ";", "\n", "r", "e", "t", "u",
      "r", "n", " ", "c", " ", "*", " ", "g", ";">>
\* 'return tex * u.x;'
T_mainUniform ==
    <<"r", "e", "t", "u", "r", "n", " ", "t", "e", "x", " ", "*", " ", "u", ".", "x", ";">>
\* 'float g = 1.0;'
T_mainK ==
    <<"r", "e", "t", "u", "r", "n", " ", "t", "e", "x", " ", "*", " ", "K", ";">>
T_mainBlend ==
    <<"r", "e", "t", "u", "r", "n", " ", "t", "e", "x", " ", "+", " ", "t", "e", "x", "t",
     "u", "r", "e", "2", "D", "(", "u", "T", "e", "x", "t", "u", "r", "e", ",", " ", "v",
     "U", "v", ")", ";">>
T_auxG == <<"f", "l", "o", "a", "t", " ", "g", " ", "=", " ", "1", ".", "0", ";">>
\* 'vec2 union = u;'
T_auxUnion == <<"v", "e", "c", "2", " ", "u", "n", "i", "o", "n", " ", "=", " ", "u", ";">>
\* 'u'
T_u == <<"u">>
\* 'uTexture'
T_uTexture == <<"u", "T", "e", "x", "t", "u", "r", "e">>
\* 'K'
T_K == <<"K">>
\* '1'
T_1 == <<"1">>
\* '2'
T_2 == <<"2">>
\* '3'
T_3 == <<"3">>
\* 'packing'
T_packing == <<"p", "a", "c", "k", "i", "n", "g">>
\* 'common'
T_common == <<"c", "o", "m", "m", "o", "n">>
\* 'A'
T_A == <<"A">>
\* 'B'
T_B == <<"B">>
\* 'C'
T_C == <<"C">>
\* 'S'
T_S == <<"S">>
\* 'R'
T_R == <<"R">>
\* 'Q'
T_Q == <<"Q">>

-----------------------------------------------------------------------------
(* ScreenShaderNode *)

\* GraphNode.defaultIoName
DefaultIoName == "value"

\* Mappings.toOpenGL
ToOpenGL(ty) ==
    CASE ty = "Number" -> T_float
      [] ty = "Vector2" -> T_vec2
      [] OTHER -> T_sampler2D

\* a Dependency { node, output }
Dep(node, output) == [node |-> node, output |-> output]

\* the three forms of an entry of FragmentShaderParts.uniforms
UType(ty) == [kind |-> "type", ty |-> ty]
UNode(node) == [kind |-> "node", node |-> node]
UDep(node, output) == [kind |-> "dep", node |-> node, output |-> output]

\* the Dependency behind a uniform entry, null for a type name
UniformDependency(u) ==
    IF u.kind = "type" THEN Undefined
    ELSE IF u.kind = "node" THEN Some(Dep(u.node, DefaultIoName))
    ELSE Some(Dep(u.node, u.output))

\* the type of a uniform entry; undefined when the output it names does not
\* exist (reading [1] of it raises a TypeError)
UniformType(hp, u) ==
    IF u.kind = "type" THEN Some(u.ty)
    ELSE LET out == IF u.kind = "node" THEN DefaultIoName ELSE u.output IN
         IF out \in DOMAIN hp[u.node].outputs
         THEN Some(hp[u.node].outputs[out])
         ELSE Undefined

\* ScreenShaderNode.buildFragmentShader: ok is false when a uniform's type
\* cannot be read (TypeError)
\* mutant: the define directives come after the auxiliary code
BuildFragmentShader_DefinesLast(hp, parts) ==
    LET uniforms == OrElse(parts.uniforms, <<>>)
        includes == OrElse(parts.includes, <<>>)
        defines == OrElse(parts.defines, <<>>)
        decls == [i \in DOMAIN uniforms |->
                    T_uniform \o ToOpenGL(OrElse(UniformType(hp, uniforms[i][2]), "Texture"))
                    \o T_space \o uniforms[i][1] \o T_semicolon]
    IN [ok |-> \A i \in DOMAIN uniforms : IsDef(UniformType(hp, uniforms[i][2])),
        text |-> Join(
            <<T_precision>>
            \o [i \in DOMAIN includes |-> T_includeOpen \o includes[i] \o T_includeClose]
            \o <<T_varying, T_uTDiffuse, T_uTDepth, T_uResolution, T_uCameraNear,
                 T_uCameraFar>>
            \o (IF decls # <<>> THEN <<Join(decls, T_newline)>> ELSE <<>>)
            \o (IF IsDef(parts.auxCode) THEN <<parts.auxCode[1]>> ELSE <<>>)
            \o [i \in DOMAIN defines |->
                    T_define \o defines[i][1] \o T_space \o defines[i][2].s]
            \o <<T_shaderOpen, T_indent \o SplitJoin(parts.main), T_braceClose,
                 T_mainOpen, T_entry, T_braceClose>>,
            T_newline)]

BuildFragmentShader(hp, parts) ==
    LET uniforms == OrElse(parts.uniforms, <<>>)
        includes == OrElse(parts.includes, <<>>)
        defines == OrElse(parts.defines, <<>>)
        decls == [i \in DOMAIN uniforms |->
                    T_uniform \o ToOpenGL(OrElse(UniformType(hp, uniforms[i][2]), "Texture"))
                    \o T_space \o uniforms[i][1] \o T_semicolon]
    IN [ok |-> \A i \in DOMAIN uniforms : IsDef(UniformType(hp, uniforms[i][2])),
        text |-> Join(
            <<T_precision>>
            \o [i \in DOMAIN includes |-> T_includeOpen \o includes[i] \o T_includeClose]
            \o [i \in DOMAIN defines |->
                    T_define \o defines[i][1] \o T_space \o defines[i][2].s]
            \o <<T_varying, T_uTDiffuse, T_uTDepth, T_uResolution, T_uCameraNear,
                 T_uCameraFar>>
            \o (IF decls # <<>> THEN <<Join(decls, T_newline)>> ELSE <<>>)
            \o (IF IsDef(parts.auxCode) THEN <<parts.auxCode[1]>> ELSE <<>>)
            \o <<T_shaderOpen, T_indent \o SplitJoin(parts.main), T_braceClose,
                 T_mainOpen, T_entry, T_braceClose>>,
            T_newline)]

\* ScreenShaderNode.buildMaterial
BuildMaterial(fragmentShader) == [fragmentShader |-> fragmentShader]

\* an entry of a node's inputs Map: [Dependency | null, Type]
Input(dep, ty) == [dep |-> dep, ty |-> ty]

\* the inputs the constructor hands to ProcessorNode: the normalized uniforms,
\* then target and renderer
ConstructorInputs(hp, target, renderer, parts) ==
    LET uniforms == OrElse(parts.uniforms, <<>>)
        names == OKeys(uniforms) \cup {T_target, T_renderer}
    IN [k \in names |->
          IF k = T_target THEN Input(Some(target), "RenderTarget")
          ELSE IF k = T_renderer THEN Input(Some(renderer), "Renderer")
          ELSE Input(UniformDependency(OGet(uniforms, k)),
                     OrElse(UniformType(hp, OGet(uniforms, k)), "Texture"))]

\* new ScreenShaderNode(target, renderer, { fragmentShaderParts, toScreen })
ScreenShaderNode(hp, id, target, renderer, parts, toScreen) ==
    [nodeType |-> "ScreenShaderNode",
     id |-> id,
     inputs |-> ConstructorInputs(hp, target, renderer, parts),
     outputs |-> [o \in {DefaultIoName} |-> "RenderTarget"],
     parts |-> parts,
     toScreen |-> toScreen,
     material |-> BuildMaterial(BuildFragmentShader(hp, parts).text)]

\* a node of another class, known here by its outputs only
OtherNode(type, id, outs) ==
    [nodeType |-> type, id |-> id, inputs |-> <<>>, outputs |-> outs]

\* FragmentShaderParts
Parts(includes, defines, uniforms, auxCode, main) ==
    [includes |-> includes, defines |-> defines, uniforms |-> uniforms,
     auxCode |-> auxCode, main |-> main]

\* a define's value with the text it prints as
NumberValue(s) == [t |-> "number", s |-> s]
StringValue(s) == [t |-> "string", s |-> s]


-----------------------------------------------------------------------------
(* Graph: the name table and, for a SubGraph, its exposed outputs *)

RECURSIVE SetToSeq(_)
SetToSeq(S) ==
    IF S = {} THEN <<>>
    ELSE LET x == CHOOSE y \in S : TRUE IN <<x>> \o SetToSeq(S \ {x})

\* graph.findNode(node)?.name ?? 'null'
FindNodeName(g, node) ==
    IF \E k \in DOMAIN g.nodes : g.nodes[k] = node
    THEN CHOOSE k \in DOMAIN g.nodes : g.nodes[k] = node
    ELSE T_null

\* node m holds an input whose Dependency is produced by node n
DependsOn(hp, m, n) ==
    \E k \in DOMAIN hp[m].inputs :
        IsDef(hp[m].inputs[k].dep) /\ hp[m].inputs[k].dep[1].node = n

\* mutant: only the 'target' input is looked at
FindDependants_TargetOnly(g, hp, n) ==
    LET entries == SetToSeq(DOMAIN g.nodes)
        hits == SelectSeq(entries, LAMBDA k :
                    /\ T_target \in DOMAIN hp[g.nodes[k]].inputs
                    /\ hp[g.nodes[k]].inputs[T_target].dep = Some(Dep(n, DefaultIoName)))
    IN [i \in DOMAIN hits |-> g.nodes[hits[i]]]

\* graph.findDependants(node): the registered nodes with an input depending
\* on node, one array element per registered entry
FindDependants(g, hp, n) ==
    LET entries == SetToSeq(DOMAIN g.nodes)
        hits == SelectSeq(entries, LAMBDA k : DependsOn(hp, g.nodes[k], n))
    IN [i \in DOMAIN hits |-> g.nodes[hits[i]]]

-----------------------------------------------------------------------------
(* ScreenShaderMerge.operation *)

\* the [0] of inputs.get('renderer'), undefined when the input or its
\* Dependency is missing (reading it raises a TypeError)
RendererOf(hp, n) ==
    IF T_renderer \in DOMAIN hp[n].inputs THEN hp[n].inputs[T_renderer].dep ELSE Undefined

\* mutant: the output names are not compared
RendererDiffers_NodeOnly(cRenderer, pRenderer) ==
    cRenderer.node # pRenderer.node

\* cRenderer.node != pRenderer.node || cRenderer.output != pRenderer.output
RendererDiffers(cRenderer, pRenderer) ==
    cRenderer.node # pRenderer.node \/ cRenderer.output # pRenderer.output

\* mutant: a parent with several dependants passes
DependantsCheckFails_NoneOnly(g, hp, parent) ==
    Len(FindDependants(g, hp, parent)) < 1

\* graph.findDependants(parent).length != 1
DependantsCheckFails(g, hp, parent) ==
    Len(FindDependants(g, hp, parent)) # 1

\* the text the offset-sampling expression is run on
ChildCode(cParts) == StripWhitespace(OrElse(cParts.auxCode, <<>>) \o cParts.main)

\* detectedOffsetSampling != null
DetectedOffsetSampling(cParts) == MatchesOffsetSampling(ChildCode(cParts))

\* mutant: only the first output of the SubGraph is looked at
LinkedToSubGraphOutput_FirstOnly(g, parent) ==
    /\ IsDef(g.outputs)
    /\ g.outputs[1] # <<>>
    /\ IsDef(g.outputs[1][1][2])
    /\ g.outputs[1][1][2][1].node = parent

\* a SubGraph output is bound to parent
LinkedToSubGraphOutput(g, parent) ==
    /\ IsDef(g.outputs)
    /\ \E i \in DOMAIN g.outputs[1] :
          /\ IsDef(g.outputs[1][i][2])
          /\ g.outputs[1][i][2][1].node = parent

RECURSIVE Dedup(_, _)
\* the values of a Set filled from an array, in insertion order
Dedup(seen, items) ==
    IF items = <<>> THEN seen
    ELSE IF \E i \in DOMAIN seen : seen[i] = items[1]
    THEN Dedup(seen, Tail(items))
    ELSE Dedup(Append(seen, items[1]), Tail(items))

IsDigit(c) == c \in {"0", "1", "2", "3", "4", "5", "6", "7", "8", "9"}

RECURSIVE StripLeadingZeros(_)
StripLeadingZeros(t) ==
    IF t # <<>> /\ t[1] = "0" THEN StripLeadingZeros(Tail(t)) ELSE t

RECURSIVE StripTrailingZeros(_)
StripTrailingZeros(t) ==
    IF t # <<>> /\ t[Len(t)] = "0" THEN StripTrailingZeros(SubSeq(t, 1, Len(t) - 1)) ELSE t

\* the number an unsigned decimal text without exponent converts to, as its
\* integer and fraction digits without padding zeros; the empty text
\* converts to 0 and any other text to NaN
ToNumber(t) ==
    LET dots == {i \in DOMAIN t : t[i] = "."}
        decimal == /\ \A i \in DOMAIN t : IsDigit(t[i]) \/ t[i] = "."
                   /\ Cardinality(dots) <= 1
                   /\ t # <<".">>
        dot == IF dots = {} THEN Len(t) + 1 ELSE CHOOSE i \in dots : TRUE
    IN IF decimal
       THEN [nan |-> FALSE, int |-> StripLeadingZeros(SubSeq(t, 1, dot - 1)),
             frac |-> StripTrailingZeros(SubSeq(t, dot + 1, Len(t)))]
       ELSE [nan |-> TRUE, int |-> <<>>, frac |-> <<>>]

\* a == b on define values: two numbers or two strings are compared as they
\* are, a string and a number after the string was converted to a number
LooseEquals(a, b) ==
    IF a.t = b.t THEN a.s = b.s
    ELSE /\ ~ToNumber(a.s).nan
         /\ ~ToNumber(b.s).nan
         /\ ToNumber(a.s).int = ToNumber(b.s).int
         /\ ToNumber(a.s).frac = ToNumber(b.s).frac

\* the loop over the child's defines throws
DefineConflict(cParts, pParts) ==
    LET cDefines == OrElse(cParts.defines, <<>>)
        pDefines == OrElse(pParts.defines, <<>>)
    IN \E i \in DOMAIN cDefines :
          /\ OHas(pDefines, cDefines[i][1])
          /\ ~LooseEquals(OGet(pDefines, cDefines[i][1]), cDefines[i][2])

RECURSIVE MangleUniforms(_, _, _, _)
\* the loop that renames the parent's uniforms the child also declares:
\* entries is the snapshot Object.entries took, pUniforms the object as it is
\* being rewritten
MangleUniforms(entries, cUniforms, pUniforms, replacements) ==
    IF entries = <<>> THEN [uniforms |-> pUniforms, replacements |-> replacements]
    ELSE LET name == entries[1][1] IN
         IF OHas(cUniforms, name)
         THEN LET val == IF OHas(pUniforms, name) THEN <<OGet(pUniforms, name)>> ELSE <<>>
                  renamed == T_parentPrefix \o name
                  removed == ODelete(pUniforms, name)
              IN MangleUniforms(Tail(entries), cUniforms,
                    IF val = <<>> THEN removed ELSE OSet(removed, renamed, val[1]),
                    Append(replacements, <<name, renamed>>))
         ELSE MangleUniforms(Tail(entries), cUniforms, pUniforms, replacements)

IsWordChar(c) ==
    c \in {"a", "b", "c", "d", "e", "f", "g", "h", "i", "j", "k", "l", "m", "n", "o", "p",
           "q", "r", "s", "t", "u", "v", "w", "x", "y", "z", "A", "B", "C", "D", "E", "F",
           "G", "H", "I", "J", "K", "L", "M", "N", "O", "P", "Q", "R", "S", "T", "U", "V",
           "W", "X", "Y", "Z", "0", "1", "2", "3", "4", "5", "6", "7", "8", "9", "_"}

\* \bname\b matches at position i
WholeWordAt(t, i, name) ==
    /\ StartsWithAt(t, i, name)
    /\ (i = 1 \/ ~IsWordChar(t[i - 1]))
    /\ (i + Len(name) > Len(t) \/ ~IsWordChar(t[i + Len(name)]))

RECURSIVE ReplaceWords(_, _, _, _)
ReplaceWords(t, i, name, rep) ==
    IF i > Len(t) THEN <<>>
    ELSE IF WholeWordAt(t, i, name)
    THEN rep \o ReplaceWords(t, i + Len(name), name, rep)
    ELSE <<t[i]>> \o ReplaceWords(t, i + 1, name, rep)

\* new RegExp(`\\b${name}\\b`): no flags
WordRegExp(name) == [source |-> name, global |-> FALSE]

\* String.prototype.replaceAll with a regular expression: a TypeError unless
\* the expression is global
ReplaceAll(t, regexp, rep) ==
    IF regexp.global
    THEN [ok |-> TRUE, text |-> ReplaceWords(t, 1, regexp.source, rep)]
    ELSE [ok |-> FALSE, text |-> t]

RECURSIVE ReplaceInParent(_, _)
\* the loop over replacements
ReplaceInParent(auxCode, replacements) ==
    IF replacements = <<>> THEN [ok |-> TRUE, text |-> auxCode]
    ELSE LET r == ReplaceAll(auxCode, WordRegExp(replacements[1][1]), replacements[1][2]) IN
         IF r.ok THEN ReplaceInParent(r.text, Tail(replacements)) ELSE r

\* the wrapper function of one side: signature, indented main, closing brace
Wrapper(id, main) ==
    <<T_vec4Underscore \o id \o T_shaderSig,
      T_tab \o ReplaceFirst(main, T_newline, T_newlineTab),
      T_braceClose>>

\* the new auxCode of the child
ComposedAuxCode(cName, pName, cId, pId, cAux, pAux, cMain, pMain) ==
    Join(<<T_comment \o pName, pAux>> \o Wrapper(pId, pMain)
         \o <<T_comment \o cName, cAux>> \o Wrapper(cId, cMain),
         T_newline)

\* the new main of the child
ComposedMain(cId, pId) ==
    T_returnUnderscore \o cId \o T_shaderCallOpen \o pId \o T_shaderCallTex

\* mutant: the merged node keeps the child's name
MergedName_ChildName(cName, pName, cId, pId) == cName

\* the name the merged node is registered under
MergedName(cName, pName, cId, pId) ==
    T_underscore \o pId \o T_underscore \o pName \o T_underscore \o cId
    \o T_underscore \o cName

\* mutant: the child's inputs are replaced by the parent's
RewiredInputs_ParentOnly(cInputs, pInputs) == pInputs

\* child.inputs after the rewiring
RewiredInputs(cInputs, pInputs) ==
    LET kept == MapDelete(MapDelete(cInputs, T_renderer), T_target) IN
    [k \in DOMAIN kept \cup DOMAIN pInputs |->
        IF k \in DOMAIN pInputs THEN pInputs[k] ELSE kept[k]]

\* a throw: what the call leaves behind, nothing returned
Outcome(val, g, hp) == [val |-> val, graph |-> g, heap |-> hp, node |-> Undefined]

\* return child
Returned(child, g, hp) == [val |-> "ok", graph |-> g, heap |-> hp, node |-> Some(child)]

\* the operation from the merge of the includes on: every assignment made
\* before a throw stays
MergeParts(g, hp, child, parent, cName, pName) ==
    LET cParts == hp[child].parts
        pParts == hp[parent].parts
        includes == Dedup(<<>>, OrElse(cParts.includes, <<>>) \o OrElse(pParts.includes, <<>>))
        cParts1 == [cParts EXCEPT !.includes = Some(includes)]
        hp1 == [hp EXCEPT ![child].parts = cParts1]
    IN
    IF DefineConflict(cParts1, pParts) THEN Outcome("Error: define", g, hp1)
    ELSE
    LET pUniforms0 == OrElse(pParts.uniforms, <<>>)
        mangled == MangleUniforms(pUniforms0, OrElse(cParts1.uniforms, <<>>), pUniforms0, <<>>)
        cUniforms == OAssign(OrElse(cParts1.uniforms, <<>>), mangled.uniforms)
        cAux == OrElse(cParts1.auxCode, <<>>)
        pAux0 == OrElse(pParts.auxCode, <<>>)
        pParts2 == [pParts EXCEPT !.uniforms = Some(mangled.uniforms), !.auxCode = Some(pAux0)]
        cParts2 == [cParts1 EXCEPT !.uniforms = Some(cUniforms), !.auxCode = Some(cAux)]
        replaced == ReplaceInParent(pAux0, mangled.replacements)
        hp2 == [hp1 EXCEPT ![child].parts = cParts2, ![parent].parts = pParts2]
    IN
    IF ~replaced.ok THEN Outcome("TypeError: replaceAll", g, hp2)
    ELSE
    LET pParts3 == [pParts2 EXCEPT !.auxCode = Some(replaced.text)]
        cParts3 == [cParts2 EXCEPT
                      !.auxCode = Some(ComposedAuxCode(cName, pName, hp[child].id,
                                        hp[parent].id, cAux, replaced.text,
                                        cParts.main, pParts.main)),
                      !.main = ComposedMain(hp[child].id, hp[parent].id)]
        hp3 == [hp2 EXCEPT ![child].parts = cParts3, ![parent].parts = pParts3]
        built == BuildFragmentShader(hp3, cParts3)
    IN
    IF ~built.ok THEN Outcome("TypeError: uniform", g, hp3)
    ELSE
    LET hp4 == [hp3 EXCEPT
                  ![child].material = BuildMaterial(built.text),
                  ![child].inputs = RewiredInputs(hp[child].inputs, hp[parent].inputs)]
        names == MapPut(MapDelete(MapDelete(g.nodes, pName), cName),
                        MergedName(cName, pName, hp[child].id, hp[parent].id), child)
    IN Returned(child, [g EXCEPT !.nodes = names], hp4)

\* operation(nodes, graph) with nodes = [child, parent]
Operation(g, hp, child, parent) ==
    LET cName == FindNodeName(g, child)
        pName == FindNodeName(g, parent)
        cRenderer == RendererOf(hp, child)
        pRenderer == RendererOf(hp, parent)
    IN
    IF ~IsDef(cRenderer) \/ ~IsDef(pRenderer) THEN Outcome("TypeError: renderer", g, hp)
    ELSE IF RendererDiffers(cRenderer[1], pRenderer[1]) THEN Outcome("Error: renderer", g, hp)
    ELSE IF DependantsCheckFails(g, hp, parent) THEN Outcome("Error: dependants", g, hp)
    ELSE IF DetectedOffsetSampling(hp[child].parts) THEN Outcome("Error: offset", g, hp)
    ELSE IF LinkedToSubGraphOutput(g, parent) THEN Outcome("Error: subgraph", g, hp)
    ELSE MergeParts(g, hp, child, parent, cName, pName)


-----------------------------------------------------------------------------
(* The graphs the optimization is run on *)

\* how often repeated attempts on one pair may rename a uniform
MaxMangle == 1

\* fragment shader parts the shader nodes are built from
PartsDefault == Parts(Undefined, Undefined, Undefined, Undefined, T_mainDefault)
PartsCanonical == Parts(Undefined, Undefined, Undefined, Undefined, T_mainCanonical)
PartsOffset ==
    Parts(Undefined, Undefined, Some(<< <<T_u, UType("Number")>> >>), Undefined, T_mainOffset)
PartsExempt ==
    Parts(Undefined, Undefined, Some(<< <<T_uTexture, UType("Texture")>> >>), Undefined,
          T_mainExempt)
PartsK1 ==
    Parts(Some(<<T_packing>>), Some(<< <<T_K, NumberValue(T_1)>> >>), Undefined, Undefined,
          T_mainDefault)
PartsK2 ==
    Parts(Some(<<T_common, T_packing>>), Some(<< <<T_K, NumberValue(T_2)>> >>), Undefined,
          Some(T_auxG), T_mainLines)
PartsKs ==
    Parts(Undefined, Some(<< <<T_K, StringValue(<<"1", ".", "0">>)>> >>), Undefined, Undefined,
          T_mainK)
\* a shader that also reads the output of the first shader node through a
\* uniform of its own
PartsBlend ==
    Parts(Undefined, Undefined, Some(<< <<T_uTexture, UDep("n1", DefaultIoName)>> >>),
          Undefined, T_mainBlend)
PartsUniform ==
    Parts(Undefined, Undefined, Some(<< <<T_u, UType("Vector2")>> >>), Some(T_auxUnion),
          T_mainUniform)

PartsPresets ==
    {PartsDefault, PartsCanonical, PartsOffset, PartsExempt, PartsK1, PartsK2, PartsKs,
     PartsUniform}
MiddlePresets == PartsPresets \cup {PartsBlend}
LastPresets == {PartsDefault, PartsOffset}

\* node objects: two renderer providers, the producer of the first render
\* target, three shader nodes
ShaderIds == {"n1", "n2", "n3"}

ProviderOutputs == [o \in {"renderer", "view"} |-> "Renderer"]

BaseHeap ==
    [n \in {"R1", "R2", "S"} |->
        IF n = "R1" THEN OtherNode("GlobeView", <<"8">>, ProviderOutputs)
        ELSE IF n = "R2" THEN OtherNode("GlobeView", <<"9">>, ProviderOutputs)
        ELSE OtherNode("Render", <<"7">>, [o \in {DefaultIoName} |-> "RenderTarget"])]

RendererDeps == {Dep("R1", "renderer"), Dep("R2", "renderer"), Dep("R1", "view")}

HeapPut(hp, id, node) == [n \in DOMAIN hp \cup {id} |-> IF n = id THEN node ELSE hp[n]]

\* the chain S <- n1 <- n2, with n3 consuming n2 or n1
BuildHeap(p1, p2, p3, r2, t3) ==
    LET h1 == HeapPut(BaseHeap, "n1",
                ScreenShaderNode(BaseHeap, T_1, Dep("S", DefaultIoName),
                                 Dep("R1", "renderer"), p1, FALSE))
        h2 == HeapPut(h1, "n2",
                ScreenShaderNode(h1, T_2, Dep("n1", DefaultIoName), r2, p2, FALSE))
    IN HeapPut(h2, "n3",
                ScreenShaderNode(h2, T_3, Dep(t3, DefaultIoName),
                                 Dep("R1", "renderer"), p3, TRUE))

\* the names the nodes are registered under
NameTable(r2) ==
    LET named == <<T_R, "R1">> :> 0 @@ <<T_S, "S">> :> 0 @@ <<T_A, "n1">> :> 0
                 @@ <<T_B, "n2">> :> 0 @@ <<T_C, "n3">> :> 0
                 @@ (IF r2.node = "R2" THEN <<T_Q, "R2">> :> 0 ELSE <<T_R, "R1">> :> 0)
    IN [k \in {e[1] : e \in DOMAIN named} |->
            (CHOOSE e \in DOMAIN named : e[1] = k)[2]]

\* a Graph has no outputs; a SubGraph exposes the last node, or the first one
SubGraphChoices ==
    {Undefined,
     Some(<< <<"out", Some(Dep("n3", DefaultIoName))>> >>),
     Some(<< <<"out", Some(Dep("n3", DefaultIoName))>>,
             <<"first", Some(Dep("n1", DefaultIoName))>> >>)}

MRet(val, node, child, parent) ==
    [op |-> "merge", val |-> val, node |-> node, child |-> child, parent |-> parent]

MergeInit ==
    /\ DagFresh
    /\ mret = Ret("new", "object")
    /\ EvalIdle /\ LayerIdle /\ SourceIdle /\ BuildIdle
    /\ \E p1 \in PartsPresets, p2 \in MiddlePresets, p3 \in LastPresets,
          r2 \in RendererDeps, t3 \in {"n1", "n2"}, outs \in SubGraphChoices :
          /\ heap = BuildHeap(p1, p2, p3, r2, t3)
          /\ graph = [nodes |-> NameTable(r2), outputs |-> outs]

\* the engine's match of the pattern [ScreenShaderNode, ScreenShaderNode]:
\* child is registered and parent is the node its target input comes from
Matches(g, hp, child, parent) ==
    /\ \E k \in DOMAIN g.nodes : g.nodes[k] = child
    /\ \E k \in DOMAIN g.nodes : g.nodes[k] = parent
    /\ hp[child].nodeType = "ScreenShaderNode"
    /\ hp[parent].nodeType = "ScreenShaderNode"
    /\ T_target \in DOMAIN hp[child].inputs
    /\ IsDef(hp[child].inputs[T_target].dep)
    /\ hp[child].inputs[T_target].dep[1].node = parent

RECURSIVE PrefixDepth(_)
\* how many times a uniform name was prefixed
PrefixDepth(name) ==
    IF StartsWithAt(name, 1, T_parentPrefix)
    THEN 1 + PrefixDepth(SubSeq(name, Len(T_parentPrefix) + 1, Len(name)))
    ELSE 0

\* no uniform has been renamed more than MaxMangle times
WithinMangle(hp) ==
    \A n \in ShaderIds : \A k \in OKeys(OrElse(hp[n].parts.uniforms, <<>>)) :
        PrefixDepth(k) <= MaxMangle

\* the engine applies the operation to a matched pair; an exception leaves
\* whatever the operation had written
Merge(child, parent) ==
    /\ Matches(graph, heap, child, parent)
    /\ LET r == Operation(graph, heap, child, parent) IN
          /\ WithinMangle(r.heap)
          /\ graph' = r.graph
          /\ heap' = r.heap
          /\ mret' = MRet(r.val, r.node, child, parent)
    /\ UNCHANGED <<dagVars, evalVars, layerVars, sourceVars, buildVars>>

MergeNext == \E child \in ShaderIds, parent \in ShaderIds : Merge(child, parent)

SpecMerge == MergeInit /\ [][MergeNext]_vars


-----------------------------------------------------------------------------
(* Claims about findDependants and the preconditions of the fusion *)

\* the nodes registered in the graph
Registered(g) == {g.nodes[k] : k \in DOMAIN g.nodes}

\* the producers named by the Dependencies in a node's input map
Producers(hp, m) ==
    {hp[m].inputs[k].dep[1].node : k \in {j \in DOMAIN hp[m].inputs : IsDef(hp[m].inputs[j].dep)}}

\* the registered nodes whose input map holds a Dependency on n
Consumers(g, hp, n) == {m \in Registered(g) : n \in Producers(hp, m)}

Elements(array) == {array[i] : i \in DOMAIN array}

\* C6: for every node n, findDependants(n) returns exactly the registered
\* nodes whose input map holds a Dependency produced by n.
C6_FindDependantsExact ==
    \A n \in DOMAIN heap :
        Elements(FindDependants(graph, heap, n)) = Consumers(graph, heap, n)

C6_Witness ==
    /\ mret.op = "merge"
    /\ \E n \in ShaderIds : Cardinality(Elements(FindDependants(graph, heap, n))) = 2
    /\ \E n \in ShaderIds : n \in Registered(graph) /\ FindDependants(graph, heap, n) = <<>>

\* the failures the fusion raises by name
NamedErrors ==
    {"Error: renderer", "Error: dependants", "Error: offset", "Error: subgraph",
     "Error: define"}

\* C7: whenever the operation fails with one of its named errors, the node
\* table and the node objects (inputs, fragment shader parts, material of
\* child and parent) are what they were before the call.
C7_FailureLeavesGraph ==
    [][(mret'.op = "merge" /\ mret'.val \in NamedErrors)
          => (graph' = graph /\ heap' = heap)]_vars

\* the (node, output) pair of a node's renderer input
RendererPair(hp, n) == hp[n].inputs[T_renderer].dep[1]

\* C8: the fusion aborts with the renderer error, changing nothing, whenever
\* the renderer inputs of child and parent differ in node or in output.
C8_RendererMismatchAborts ==
    [][\A c \in ShaderIds, p \in ShaderIds :
          (Merge(c, p) /\ RendererPair(heap, c) # RendererPair(heap, p))
              => (mret'.val = "Error: renderer" /\ graph' = graph /\ heap' = heap)]_vars

C8_Witness ==
    /\ mret.op = "merge"
    /\ mret.val = "Error: renderer"
    /\ RendererPair(heap, mret.child).node = RendererPair(heap, mret.parent).node
    /\ RendererPair(heap, mret.child).output # RendererPair(heap, mret.parent).output

\* the outcomes that lie behind the check of the dependants
PastDependantsCheck ==
    {"Error: offset", "Error: subgraph", "Error: define", "TypeError: replaceAll",
     "TypeError: uniform", "ok"}

\* C9: the fusion aborts, changing nothing, whenever the parent has a
\* dependant other than the child, and gets past the check of the dependants
\* only when the parent's dependants are exactly the child.
C9_SingleDependant ==
    [][\A c \in ShaderIds, p \in ShaderIds :
          Merge(c, p) =>
            /\ (Consumers(graph, heap, p) # {c}) =>
                  /\ mret'.val \in {"Error: renderer", "Error: dependants"}
                  /\ graph' = graph
                  /\ heap' = heap
            /\ (mret'.val \in PastDependantsCheck) => Consumers(graph, heap, p) = {c}]_vars

C9_Witness ==
    /\ mret.op = "merge"
    /\ mret.val = "Error: dependants"
    /\ Consumers(graph, heap, mret.parent) = {mret.child, "n3"}
    /\ mret.child # "n3"

\* a sample of the canonical input tDiffuse starts at position i of a text
\* without whitespace
InputSampleAt(t, i) == StartsWithAt(t, i, T_texture2DOpen \o SubSeq(T_tDiffuseVUv, 1, 9))

\* ... and its coordinate argument is the canonical coordinate vUv
CanonicalSampleAt(t, i) ==
    StartsWithAt(t, i, T_texture2DOpen \o T_tDiffuseVUv \o T_parenClose)

\* the text samples the canonical input at another coordinate
HasOffsetSample(t) == \E i \in 1..Len(t) : InputSampleAt(t, i) /\ ~CanonicalSampleAt(t, i)

\* every sample in the text is the canonical one
AllSamplesCanonical(t) == \A i \in Occurrences(t, T_texture2DOpen) : CanonicalSampleAt(t, i)

\* C10: the fusion aborts when the child's auxiliary or main text samples the
\* canonical input at a non-canonical coordinate; it does not abort on this
\* precondition when every sample in the child's text is the canonical one
\* (tDiffuse at vUv, as buildFragmentShader declares them); offset sampling in
\* the parent's text alone never causes the abort.
C10_OffsetSamplingCheck ==
    [][\A c \in ShaderIds, p \in ShaderIds :
          Merge(c, p) =>
            LET code == ChildCode(heap[c].parts) IN
            /\ HasOffsetSample(code) => mret'.val \in NamedErrors
            /\ AllSamplesCanonical(code) => mret'.val # "Error: offset"]_vars

-----------------------------------------------------------------------------
(* Claims about the fusion itself *)

\* the nodes the externally exposed outputs of a SubGraph are bound to
OutputBound(g) ==
    IF IsDef(g.outputs)
    THEN {g.outputs[1][i][2][1].node :
            i \in {j \in DOMAIN g.outputs[1] : IsDef(g.outputs[1][j][2])}}
    ELSE {}

\* C11: when the graph is a SubGraph and one of its exposed outputs is bound
\* to the parent, the fusion aborts with nothing changed; and no call ever
\* removes from the node table a node an exposed output is bound to, or
\* rebinds an exposed output.
C11_SubGraphOutputKept ==
    [][\A c \in ShaderIds, p \in ShaderIds :
          Merge(c, p) =>
            /\ (p \in OutputBound(graph)) =>
                  /\ mret'.val \in NamedErrors
                  /\ graph' = graph
                  /\ heap' = heap
            /\ graph'.outputs = graph.outputs
            /\ OutputBound(graph) \cap Registered(graph) \subseteq Registered(graph')]_vars

C11_Witness ==
    /\ mret.op = "merge"
    /\ mret.val = "Error: subgraph"
    /\ IsDef(graph.outputs)
    /\ Len(graph.outputs[1]) = 2
    /\ graph.outputs[1][2][2][1].node = mret.parent

\* the defines of a node's fragment shader parts
DefinesOf(hp, n) == OrElse(hp[n].parts.defines, <<>>)

\* child and parent define a common key with values that differ in type or in
\* the text the program shows for them
SharedDefineDiffers(hp, c, p) ==
    \E k \in OKeys(DefinesOf(hp, c)) \cap OKeys(DefinesOf(hp, p)) :
        OGet(DefinesOf(hp, c), k).s # OGet(DefinesOf(hp, p), k).s

\* the outcomes of a call that got as far as the merge of the defines
ReachedDefines == {"Error: define", "TypeError: replaceAll", "TypeError: uniform", "ok"}

\* C12: a fusion that gets past the preconditions aborts with the conflict
\* error when child and parent define a common key with different values,
\* and does not abort on the defines when the values of every common key are
\* the same.
C12_DefineConflictAborts ==
    [][\A c \in ShaderIds, p \in ShaderIds :
          (Merge(c, p) /\ mret'.val \in ReachedDefines)
              => (mret'.val = "Error: define" <=> SharedDefineDiffers(heap, c, p))]_vars

\* C13: after a successful fusion the child's fragment shader parts, from
\* which the merged program is built, define every key the child or the
\* parent defined, each with the value it had.
C13_DefinesUnion ==
    [][\A c \in ShaderIds, p \in ShaderIds :
          (Merge(c, p) /\ mret'.val = "ok") =>
            LET merged == DefinesOf(heap', c)
                cDefines == DefinesOf(heap, c)
                pDefines == DefinesOf(heap, p)
            IN /\ OKeys(merged) = OKeys(cDefines) \cup OKeys(pDefines)
               /\ \A k \in OKeys(cDefines) : OGet(merged, k) = OGet(cDefines, k)
               /\ \A k \in OKeys(pDefines) \ OKeys(cDefines) :
                     OGet(merged, k) = OGet(pDefines, k)]_vars

\* the uniforms of a node's fragment shader parts
UniformsOf(hp, n) == OrElse(hp[n].parts.uniforms, <<>>)

\* C14: after a successful fusion the child's uniform map holds every child
\* uniform under its name with the child's declaration, and every parent
\* uniform with the parent's declaration, under its name when the child has
\* no uniform of that name and under 'parent_' + name when it has; the map
\* has as many entries as the child's and the parent's maps had together.
C14_UniformsMerged ==
    [][\A c \in ShaderIds, p \in ShaderIds :
          (Merge(c, p) /\ mret'.val = "ok") =>
            LET merged == UniformsOf(heap', c)
                cUniforms == UniformsOf(heap, c)
                pUniforms == UniformsOf(heap, p)
            IN /\ \A k \in OKeys(cUniforms) :
                     OHas(merged, k) /\ OGet(merged, k) = OGet(cUniforms, k)
               /\ \A k \in OKeys(pUniforms) :
                     LET name == IF OHas(cUniforms, k) THEN T_parentPrefix \o k ELSE k
                     IN OHas(merged, name) /\ OGet(merged, name) = OGet(pUniforms, k)
               /\ Len(merged) = Len(cUniforms) + Len(pUniforms)]_vars

C14_Witness ==
    /\ mret.op = "merge"
    /\ mret.val = "ok"
    /\ UniformsOf(heap, mret.parent) # <<>>
    /\ Len(UniformsOf(heap, mret.child)) > Len(UniformsOf(heap, mret.parent))

\* the uniform names child and parent both declare
SharedUniforms(hp, c, p) == OKeys(UniformsOf(hp, c)) \cap OKeys(UniformsOf(hp, p))

\* the outcomes of a call that got as far as the renaming of the uniforms
ReachedUniforms == {"TypeError: replaceAll", "TypeError: uniform", "ok"}

\* C15: a fusion that gets as far as the uniforms of a child and a parent
\* sharing a uniform name u succeeds, and afterwards the parent's auxiliary
\* text has no whole-word occurrence of u left, every one being rewritten to
\* parent_u, while longer identifiers containing u are as they were.
C15_SharedUniformRenamed ==
    [][\A c \in ShaderIds, p \in ShaderIds :
          (Merge(c, p) /\ mret'.val \in ReachedUniforms /\ SharedUniforms(heap, c, p) # {}) =>
            LET before == OrElse(heap[p].parts.auxCode, <<>>)
                after == OrElse(heap'[p].parts.auxCode, <<>>)
            IN /\ mret'.val = "ok"
               /\ \A u \in SharedUniforms(heap, c, p) :
                     /\ \A i \in DOMAIN after : ~WholeWordAt(after, i, u)
                     /\ Len(after) = Len(before) + Len(T_parentPrefix)
                            * Cardinality({i \in DOMAIN before : WholeWordAt(before, i, u)})]_vars

\* the text of a node's auxiliary code and main
CodeOf(hp, n) == OrElse(hp[n].parts.auxCode, <<>>) \o T_newline \o hp[n].parts.main

\* the identifier k is used in the text
Uses(text, k) == \E i \in DOMAIN text : WholeWordAt(text, i, k)

\* the program defines every key of a node's defines that the node's code
\* uses, with the node's value
KeepsDefines(program, hp, n) ==
    \A k \in OKeys(DefinesOf(hp, n)) :
        Uses(CodeOf(hp, n), k) =>
            Occurrences(program, T_define \o k \o T_space \o OGet(DefinesOf(hp, n), k).s
                                 \o T_newline) # {}

\* the function a side's main is wrapped in, without whitespace
WrappedMain(hp, n) ==
    StripWhitespace(T_vec4Underscore \o hp[n].id \o T_shaderSig \o hp[n].parts.main
                    \o T_braceClose)

\* C16: after a successful fusion the child's main is the one statement that
\* applies the parent's wrapper to the input sample and the child's wrapper
\* to the result; its auxiliary text is, up to whitespace, the parent's
\* auxiliary text, the parent's wrapper, the child's auxiliary text and the
\* child's wrapper in this order, each under a comment with the node's name;
\* and the merged program gives either side's code what it had on its own:
\* the defines it uses, and no global declaration a second time.
C16_ComposesParentThenChild ==
    [][\A c \in ShaderIds, p \in ShaderIds :
          (Merge(c, p) /\ mret'.val = "ok") =>
            LET cAux == OrElse(heap[c].parts.auxCode, <<>>)
                pAux == OrElse(heap[p].parts.auxCode, <<>>)
                merged == heap'[c].parts
                program == heap'[c].material.fragmentShader
            IN /\ merged.main = T_returnUnderscore \o heap[c].id \o T_shaderCallOpen
                                \o heap[p].id \o T_shaderCallTex
               /\ StripWhitespace(merged.auxCode[1]) =
                     StripWhitespace(T_comment \o FindNodeName(graph, p) \o pAux)
                     \o WrappedMain(heap, p)
                     \o StripWhitespace(T_comment \o FindNodeName(graph, c) \o cAux)
                     \o WrappedMain(heap, c)
               /\ Occurrences(program, T_entry) # {}
               /\ KeepsDefines(program, heap, p)
               /\ KeepsDefines(program, heap, c)
               /\ pAux # <<>> => Cardinality(Occurrences(merged.auxCode[1], pAux)) = 1]_vars

\* the inputs of a node that come from its uniforms
UserInputs(hp, n) == DOMAIN hp[n].inputs \ {T_renderer, T_target}

C18_NodeTableRewritten ==
    [][\A c \in ShaderIds, p \in ShaderIds :
          (Merge(c, p) /\ mret'.val = "ok") =>
            LET cName == FindNodeName(graph, c)
                pName == FindNodeName(graph, p)
                added == DOMAIN graph'.nodes \ DOMAIN graph.nodes
            IN /\ cName \notin DOMAIN graph'.nodes
               /\ pName \notin DOMAIN graph'.nodes
               /\ Cardinality(added) = 1
               /\ \A k \in added :
                     /\ graph'.nodes[k] = c
                     /\ Occurrences(k, T_underscore \o pName \o T_underscore) # {}
                     /\ Occurrences(k, T_underscore \o cName) # {}
               /\ \A k \in DOMAIN graph.nodes \ {cName, pName} :
                     k \in DOMAIN graph'.nodes /\ graph'.nodes[k] = graph.nodes[k]
               /\ Cardinality(DOMAIN graph'.nodes) = Cardinality(DOMAIN graph.nodes) - 1
               /\ mret'.node = Some(c)
               /\ Consumers(graph', heap', c) = Consumers(graph, heap, c)]_vars

C18_Witness ==
    /\ mret.op = "merge"
    /\ mret.val = "ok"
    /\ mret.node = Some(mret.child)
    /\ Consumers(graph, heap, mret.child) # {}
    /\ \E k \in DOMAIN graph.nodes : graph.nodes[k] = mret.child /\ Len(k) > 1

\* the node a node's target input comes from
TargetOf(hp, n) == hp[n].inputs[T_target].dep[1].node

\* all three shader nodes are registered and form the chain n1 <- n2 <- n3
UnfusedChain(g, hp) ==
    /\ ShaderIds \subseteq Registered(g)
    /\ TargetOf(hp, "n2") = "n1"
    /\ TargetOf(hp, "n3") = "n2"

\* the pair matches the pattern and satisfies the preconditions: same
\* renderer, the child the only dependant, no offset sampling detected in the
\* child, the parent not bound to an exposed output, no conflicting define
Fusable(g, hp, c, p) ==
    /\ Matches(g, hp, c, p)
    /\ RendererPair(hp, c) = RendererPair(hp, p)
    /\ Consumers(g, hp, p) = {c}
    /\ ~DetectedOffsetSampling(hp[c].parts)
    /\ p \notin OutputBound(g)
    /\ ~SharedDefineDiffers(hp, c, p)

\* C19: on a chain of three shader nodes in which exactly one adjacent pair
\* matches the pattern and satisfies the preconditions, applying the
\* operation to that pair fuses it: afterwards two of the three nodes are
\* registered, the child as the fused node and the node outside the pair;
\* the edge between that node and the pair now joins it with the fused node;
\* and no pair is left to fuse.
C19_ChainFusedOnce ==
    [][\A c \in ShaderIds, p \in ShaderIds :
          (/\ Merge(c, p)
           /\ UnfusedChain(graph, heap)
           /\ \A c2 \in ShaderIds, p2 \in ShaderIds :
                 Fusable(graph, heap, c2, p2) <=> (c2 = c /\ p2 = p))
          => \E q \in ShaderIds \ {c, p} :
                /\ mret'.val = "ok"
                /\ Registered(graph') \cap ShaderIds = {c, q}
                /\ (TargetOf(heap, q) = c) => (TargetOf(heap', q) = c)
                /\ (TargetOf(heap, p) = q) => (TargetOf(heap', c) = q)
                /\ \A c2 \in ShaderIds, p2 \in ShaderIds :
                      ~Fusable(graph', heap', c2, p2)]_vars

\* the dependencies of a registered node as validate() reads them: the names
\* of the producers of its inputs
DependencyList(g, hp, n) ==
    LET wired == SelectSeq(SetToSeq(DOMAIN hp[n].inputs),
                           LAMBDA k : IsDef(hp[n].inputs[k].dep))
    IN [i \in DOMAIN wired |-> StrDep(FindNodeName(g, hp[n].inputs[wired[i]].dep[1].node))]

\* the node table of the graph, name by name
DependencyTable(g, hp) ==
    [k \in DOMAIN g.nodes |-> PlainNode(DependencyList(g, hp, g.nodes[k]))]

\* the sink: the name of the node that renders to the screen
SinkName(g) == FindNodeName(g, "n3")

\* the sink is registered, every node reachable from it is registered, and
\* no dependency cycle is reachable from it
Sound(g, hp) ==
    /\ SinkName(g) \in DOMAIN g.nodes
    /\ WellFormedFromSink(DependencyTable(g, hp), SinkName(g))
    /\ ~CycleFromSink(DependencyTable(g, hp), SinkName(g))

\* C20: a successful fusion of a graph that validate() is to accept (sink
\* registered, everything reachable from it registered, no cycle) leaves a
\* graph of the same kind, and validate() succeeds on it.
C20_FusionKeepsValid ==
    [][\A c \in ShaderIds, p \in ShaderIds :
          (Merge(c, p) /\ mret'.val = "ok" /\ Sound(graph, heap)) =>
            /\ Sound(graph', heap')
            /\ ValidateResult(DependencyTable(graph', heap'), SinkName(graph')).valid]_vars

-----------------------------------------------------------------------------
(* Per-frame evaluation of a ScreenShaderNode and of a GlobeViewNode *)

\* completed evaluations of the shader node that a run follows
MaxFrames == 3

\* JavaScript values that flow through an evaluation
JsValue(kind, id) == [k |-> kind, v |-> id]
JsUndefined == JsValue("undefined", 0)
JsNull == JsValue("null", 0)
\* x == undefined, the test behind ?? and ??=
Nullish(x) == x.k \in {"undefined", "null"}

\* values a producer publishes for a user uniform
UserValues == {JsValue("user", 1), JsValue("user", 2)}
\* render targets the producer of 'target' publishes; a producer that
\* renders to the screen publishes null
InputTargets == {JsValue("input", 1), JsValue("input", 2)}
\* input.texture, input.depthTexture
TextureOf(input) == JsValue("texture", input.v)
DepthTextureOf(input) == JsValue("depthTexture", input.v)
\* new Vector2(input.width, input.height)
Vector2(input) == JsValue("Vector2", input.v)
\* camera.near and camera.far of the shared orthographic camera
CameraNear == JsValue("camera.near", 0)
CameraFar == JsValue("camera.far", 0)
\* the n-th new THREE.WebGLRenderTarget(input.width, input.height)
WebGLRenderTarget(n) == JsValue("WebGLRenderTarget", n)

\* the uniforms the evaluation fills in by itself
BuiltinUniforms == {"tDiffuse", "tDepth", "resolution", "cameraNear", "cameraFar"}

\* uniforms.k ??= v
SetIfNullish(m, k, v) == IF OHas(m, k) /\ ~Nullish(OGet(m, k)) THEN m ELSE OSet(m, k, v)

EvalOutcome(val, mat, out, allocs) ==
    [val |-> val, material |-> mat, outputs |-> out, allocations |-> allocs]

\* mutant: the cached target is never reused
EvaluationCallback_AlwaysAllocates(flag, mat, out, allocs, input, args) ==
    IF Nullish(input) THEN EvalOutcome("TypeError", mat, out, allocs)
    ELSE EvalOutcome("undefined", mat,
                     IF flag THEN JsNull ELSE WebGLRenderTarget(allocs + 1),
                     IF flag THEN allocs ELSE allocs + 1)

\* the callback given to ProcessorNode: flag is toScreen, mat is
\* material.uniforms, out is the value cached in the default output, allocs
\* counts the render targets constructed, input is args.target and args are
\* the other resolved inputs (renderer apart)
EvaluationCallback(flag, mat, out, allocs, input, args) ==
    IF Nullish(input)
    THEN \* input.texture raises
         EvalOutcome("TypeError", mat, out, allocs)
    ELSE LET u1 == OSet(args, "tDiffuse", TextureOf(input))
             u2 == OSet(u1, "tDepth", DepthTextureOf(input))
             u3 == SetIfNullish(u2, "resolution", Vector2(input))
             u4 == SetIfNullish(u3, "cameraNear", CameraNear)
             u5 == SetIfNullish(u4, "cameraFar", CameraFar)
             reuse == ~Nullish(out)
         IN EvalOutcome("undefined", OAssign(mat, u5),
                        IF flag THEN JsNull
                        ELSE IF reuse THEN out ELSE WebGLRenderTarget(allocs + 1),
                        IF flag \/ reuse THEN allocs ELSE allocs + 1)

\* mutant: the evaluation fails only when both inputs are missing
MissingViewDependencies_Both(viewerDiv, placement) ==
    Nullish(viewerDiv) /\ Nullish(placement)

\* args.viewerDiv == undefined || args.placement == undefined
MissingViewDependencies(viewerDiv, placement) ==
    Nullish(viewerDiv) \/ Nullish(placement)

\* new GlobeView(args.viewerDiv, args.placement) and its renderer
GlobeView(viewerDiv, placement) == JsValue("GlobeView", 10 * viewerDiv.v + placement.v)
GfxRenderer(view) == JsValue("Renderer", view.v)

\* the callback of GlobeViewNode, on the outputs of the node
GlobeViewCallback(outs, viewerDiv, placement) ==
    IF MissingViewDependencies(viewerDiv, placement)
    THEN [val |-> "Error", outputs |-> outs]
    ELSE LET view == GlobeView(viewerDiv, placement) IN
         [val |-> "undefined",
          outputs |-> OSet(OSet(outs, "view", view), "renderer", GfxRenderer(view))]

\* outcome of the last call, and the evaluations of the shader node completed
ERet(op, val, done) == [op |-> op, val |-> val, done |-> done]

\* the user uniforms a shader node is built with
UniformNameChoices ==
    {<<>>, <<"uBlur">>, <<"resolution">>, <<"tDiffuse">>, <<"tDepth", "uBlur">>,
     <<"cameraNear", "cameraFar">>}

\* the outputs a GlobeViewNode starts with: nothing published
FreshViewOutputs == << <<"view", JsUndefined>>, <<"renderer", JsUndefined>> >>

\* the values the producers of viewerDiv and placement may hold
ViewArgValues == {JsUndefined, JsNull, JsValue("resolved", 1)}

\* the resolved user uniforms of a frame: one value per declared name, undefined
\* for a uniform nothing was published for
ArgsChoices(names) ==
    {a \in [DOMAIN names -> UserValues \cup {JsUndefined}] : TRUE}
ArgsOf(names, a) == [i \in DOMAIN names |-> <<names[i], a[i]>>]

EvalInit ==
    /\ DagFresh /\ MergeIdle /\ LayerIdle /\ SourceIdle /\ BuildIdle
    /\ toScreenFlag \in BOOLEAN
    /\ uniformNames \in UniformNameChoices
    /\ material = <<>>
    /\ outputs = JsUndefined
    /\ allocations = 0
    /\ viewOutputs = FreshViewOutputs
    /\ eret = ERet("new", "object", 0)

\* one evaluation of the shader node
Evaluate(input, args) ==
    /\ eret.done < MaxFrames
    /\ LET r == EvaluationCallback(toScreenFlag, material, outputs, allocations,
                                   input, args) IN
          /\ material' = r.material
          /\ outputs' = r.outputs
          /\ allocations' = r.allocations
          /\ eret' = ERet("evaluate", r.val,
                          IF r.val = "undefined" THEN eret.done + 1 ELSE eret.done)
    /\ UNCHANGED <<toScreenFlag, uniformNames, viewOutputs>>
    /\ UNCHANGED <<dagVars, mergeVars, layerVars, sourceVars, buildVars>>

\* new GlobeViewNode(viewerDiv, placement): the dependencies are stored, none
\* of their values is read
NewGlobeViewNode ==
    /\ viewOutputs' = FreshViewOutputs
    /\ eret' = ERet("new GlobeViewNode", "object", eret.done)
    /\ UNCHANGED <<toScreenFlag, uniformNames, material, outputs, allocations>>
    /\ UNCHANGED <<dagVars, mergeVars, layerVars, sourceVars, buildVars>>

\* one evaluation of the view node
EvaluateView(viewerDiv, placement) ==
    /\ LET r == GlobeViewCallback(viewOutputs, viewerDiv, placement) IN
          /\ viewOutputs' = r.outputs
          /\ eret' = ERet("evaluateView", r.val, eret.done)
    /\ UNCHANGED <<toScreenFlag, uniformNames, material, outputs, allocations>>
    /\ UNCHANGED <<dagVars, mergeVars, layerVars, sourceVars, buildVars>>

EvalNext ==
    \/ \E input \in InputTargets \cup {JsNull}, a \in ArgsChoices(uniformNames) :
          Evaluate(input, ArgsOf(uniformNames, a))
    \/ NewGlobeViewNode
    \/ \E viewerDiv \in ViewArgValues, placement \in ViewArgValues :
          EvaluateView(viewerDiv, placement)

SpecEval == EvalInit /\ [][EvalNext]_vars

-----------------------------------------------------------------------------
(* Claims about per-frame evaluation *)

\* C21: an evaluation that completes binds, under every built-in uniform
\* name for which the frame's inputs carry a user-supplied value, that
\* user-supplied value.
C21_UserUniformKept ==
    [][\A input \in InputTargets \cup {JsNull}, a \in ArgsChoices(uniformNames) :
          LET args == ArgsOf(uniformNames, a) IN
          (Evaluate(input, args) /\ eret'.val = "undefined") =>
              \A b \in BuiltinUniforms :
                  (OHas(args, b) /\ ~Nullish(OGet(args, b)))
                      => OGet(material', b) = OGet(args, b)]_vars

\* C22: with the to-screen flag every completed evaluation publishes null
\* and constructs no target; without it the first completed evaluation
\* constructs one target and publishes it, every later one publishes that
\* same target and constructs none; an evaluation that raises changes
\* neither the published output nor the number of targets.
C22_TargetAllocatedOnce ==
    [][\A input \in InputTargets \cup {JsNull}, a \in ArgsChoices(uniformNames) :
          Evaluate(input, ArgsOf(uniformNames, a)) =>
              IF eret'.val # "undefined"
              THEN outputs' = outputs /\ allocations' = allocations
              ELSE IF toScreenFlag
              THEN outputs' = JsNull /\ allocations' = 0
              ELSE IF eret.done = 0
              THEN allocations = 0 /\ allocations' = 1 /\ outputs' = WebGLRenderTarget(1)
              ELSE /\ outputs = WebGLRenderTarget(1)
                   /\ outputs' = outputs
                   /\ allocations' = 1 /\ allocations = 1]_vars

C22_Witness ==
    /\ ~toScreenFlag
    /\ eret = ERet("evaluate", "undefined", MaxFrames)
    /\ outputs = WebGLRenderTarget(1)
    /\ allocations = 1

\* C23: constructing a view node succeeds whatever its inputs resolve to
\* later; an evaluation with viewerDiv or placement unresolved raises and
\* writes neither the 'view' nor the 'renderer' output.
C23_ViewFailsAtEvaluation ==
    [][/\ NewGlobeViewNode => eret'.val = "object"
       /\ \A viewerDiv \in ViewArgValues, placement \in ViewArgValues :
             (/\ EvaluateView(viewerDiv, placement)
              /\ (Nullish(viewerDiv) \/ Nullish(placement)))
                 => (eret'.val = "Error" /\ viewOutputs' = viewOutputs)]_vars

C23_Witness ==
    /\ eret.op = "evaluateView"
    /\ eret.val = "Error"
    /\ viewOutputs = FreshViewOutputs

-----------------------------------------------------------------------------
(* LayeredMaterial and TileMesh: sampler uniforms and the visible property *)

\* sampler slots of a material (nbSamplers, also passed as max)
MaxSamplers == 1
\* textures one raster tile may hold
MaxTextures == 2
\* console warnings a run follows
MaxWarnings == 1
\* events a run follows per object
MaxEvents == 2

\* layer.textures[i] of the raster tile id, also the index of its offsetScale
Tex(id, i) == [layer |-> id, i |-> i]
\* defaultTex / identityOffsetScale / the default layer structure
DefaultTex == Tex(0, 0)
\* a raster tile with n textures
RasterTile(id, n) == [id |-> id, textures |-> n]

\* the uniforms of one layer type after construction
FreshSamplers ==
    [layers |-> [i \in 1..MaxSamplers |-> 0],
     textures |-> [i \in 1..MaxSamplers |-> DefaultTex],
     offsetScales |-> [i \in 1..MaxSamplers |-> DefaultTex],
     textureCount |-> 0,
     textureOffset |-> <<>>]

\* a[count] = v for a JavaScript array: a write past the end extends it
ArraySet(a, count, v) ==
    [i \in 1..(IF count + 1 > Len(a) THEN count + 1 ELSE Len(a)) |->
        IF i = count + 1 THEN v ELSE a[i]]

Bind(u, layer, i, count) ==
    [u EXCEPT !.offsetScales = ArraySet(@, count, Tex(layer.id, i)),
              !.textures = ArraySet(@, count, Tex(layer.id, i)),
              !.layers = ArraySet(@, count, layer.id)]

RECURSIVE InnerLoop(_, _, _, _, _)
\* for (let i = 0; i < layer.textures.length && count < max; ++i, ++count)
InnerLoop(u, layer, i, count, max) ==
    IF i < layer.textures /\ count < max
    THEN InnerLoop(Bind(u, layer, i, count), layer, i + 1, count + 1, max)
    ELSE [u |-> u, count |-> count]

RECURSIVE OuterLoop(_, _, _, _, _)
\* for (const layer of olayers)
OuterLoop(u, olayers, k, count, max) ==
    IF k > Len(olayers) THEN [u |-> u, count |-> count]
    ELSE LET r == InnerLoop([u EXCEPT !.textureOffset = Append(@, count)],
                            olayers[k], 0, count, max)
         IN OuterLoop(r.u, olayers, k + 1, r.count, max)

\* updateLayersUniforms of LayeredMaterial.ts
updateLayersUniforms(u, olayers, max) ==
    LET r == OuterLoop([u EXCEPT !.textureOffset = <<>>], olayers, 1, 0, max) IN
    [uniforms |-> [r.u EXCEPT !.textureCount = r.count],
     warned |-> r.count > max]

RECURSIVE InnerLoopEarlier(_, _, _, _, _)
\* for (let i = 0, il = layer.textures.length; i < il; ++i, ++count)
InnerLoopEarlier(u, layer, i, count, max) ==
    IF i < layer.textures
    THEN InnerLoopEarlier(IF count < max THEN Bind(u, layer, i, count) ELSE u,
                          layer, i + 1, count + 1, max)
    ELSE [u |-> u, count |-> count]

RECURSIVE OuterLoopEarlier(_, _, _, _, _)
OuterLoopEarlier(u, olayers, k, count, max) ==
    IF k > Len(olayers) THEN [u |-> u, count |-> count]
    ELSE LET r == InnerLoopEarlier([u EXCEPT !.textureOffset = Append(@, count)],
                                   olayers[k], 0, count, max)
         IN OuterLoopEarlier(r.u, olayers, k + 1, r.count, max)

\* for (let i = count; i < textures.length; i++) : the unused slots get the
\* default values
FillDefaults(u, count) ==
    [u EXCEPT !.textures = [i \in DOMAIN @ |-> IF i > count THEN DefaultTex ELSE @[i]],
              !.offsetScales = [i \in DOMAIN @ |-> IF i > count THEN DefaultTex ELSE @[i]],
              !.layers = [i \in DOMAIN @ |-> IF i > count THEN 0 ELSE @[i]]]

\* updateLayersUniforms of the earlier version of the material
updateLayersUniformsEarlier(u, olayers, max) ==
    LET r == OuterLoopEarlier([u EXCEPT !.textureOffset = <<>>], olayers, 1, 0, max) IN
    [uniforms |-> FillDefaults([r.u EXCEPT !.textureCount = r.count], r.count),
     warned |-> r.count > max]

\* the raster tiles a material is updated with: up to two, in layer order
LayerLists ==
    {<<>>}
    \cup {<<RasterTile(1, n)>> : n \in 0..MaxTextures}
    \cup {<<RasterTile(1, n), RasterTile(2, m)>> : n \in 0..MaxTextures, m \in 0..MaxTextures}

\* the objects that carry the visible property
VisibleObjects == {"LayeredMaterial", "TileMesh"}

\* mutant: the setter does not compare
VisibleDiffers_Always(current, v) == TRUE

\* this._visible != v
VisibleDiffers(current, v) == current # v

\* { type: v ? 'shown' : 'hidden' }
EventType(v) == IF v THEN "shown" ELSE "hidden"

LayerInit ==
    /\ DagFresh /\ MergeIdle /\ EvalIdle /\ SourceIdle /\ BuildIdle
    /\ samplers = FreshSamplers
    /\ warnings = 0
    /\ _visible = [o \in VisibleObjects |-> TRUE]
    /\ dispatched = [o \in VisibleObjects |-> <<>>]
    /\ lret = Ret("new", "object")

\* material.updateLayersUniforms() on the colour layers olayers
UpdateLayersUniforms(olayers) ==
    /\ warnings < MaxWarnings
    /\ LET r == updateLayersUniforms(samplers, olayers, MaxSamplers) IN
          /\ samplers' = r.uniforms
          /\ warnings' = IF r.warned THEN warnings + 1 ELSE warnings
    /\ lret' = Ret("updateLayersUniforms", "undefined")
    /\ UNCHANGED <<_visible, dispatched>>
    /\ UNCHANGED <<dagVars, mergeVars, evalVars, sourceVars, buildVars>>

\* the same call on the earlier version of the material
UpdateLayersUniformsEarlier(olayers) ==
    /\ warnings < MaxWarnings
    /\ LET r == updateLayersUniformsEarlier(samplers, olayers, MaxSamplers) IN
          /\ samplers' = r.uniforms
          /\ warnings' = IF r.warned THEN warnings + 1 ELSE warnings
    /\ lret' = Ret("updateLayersUniformsEarlier", "undefined")
    /\ UNCHANGED <<_visible, dispatched>>
    /\ UNCHANGED <<dagVars, mergeVars, evalVars, sourceVars, buildVars>>

\* object.visible = v
SetVisible(o, v) ==
    /\ Len(dispatched[o]) < MaxEvents
    /\ IF VisibleDiffers(_visible[o], v)
       THEN /\ _visible' = [_visible EXCEPT ![o] = v]
            /\ dispatched' = [dispatched EXCEPT ![o] = Append(@, EventType(v))]
       ELSE UNCHANGED <<_visible, dispatched>>
    /\ lret' = [op |-> "set visible", val |-> v, object |-> o]
    /\ UNCHANGED <<samplers, warnings>>
    /\ UNCHANGED <<dagVars, mergeVars, evalVars, sourceVars, buildVars>>

\* object.visible
GetVisible(o) ==
    /\ lret' = [op |-> "get visible", val |-> _visible[o], object |-> o]
    /\ UNCHANGED <<samplers, warnings, _visible, dispatched>>
    /\ UNCHANGED <<dagVars, mergeVars, evalVars, sourceVars, buildVars>>

LayerNext ==
    \/ \E olayers \in LayerLists : UpdateLayersUniforms(olayers)
    \/ \E olayers \in LayerLists : UpdateLayersUniformsEarlier(olayers)
    \/ \E o \in VisibleObjects, v \in BOOLEAN : SetVisible(o, v)
    \/ \E o \in VisibleObjects : GetVisible(o)

SpecLayers == LayerInit /\ [][LayerNext]_vars

-----------------------------------------------------------------------------
(* Claims about the material and the tile *)

RECURSIVE TexturesOf(_, _)
\* the textures of the layers, in layer order
TexturesOf(olayers, k) ==
    IF k > Len(olayers) THEN <<>>
    ELSE [i \in 1..olayers[k].textures |-> Tex(olayers[k].id, i - 1)]
            \o TexturesOf(olayers, k + 1)

\* C24: an update with more textures than sampler slots binds the first
\* MaxSamplers textures in layer order and no other, surfaces a warning, and
\* returns normally.
C24_ExcessDroppedWithWarning ==
    [][\A olayers \in LayerLists :
          (/\ UpdateLayersUniforms(olayers) \/ UpdateLayersUniformsEarlier(olayers)
           /\ Len(TexturesOf(olayers, 1)) > MaxSamplers)
              => /\ samplers'.textures = SubSeq(TexturesOf(olayers, 1), 1, MaxSamplers)
                 /\ warnings' = warnings + 1
                 /\ lret'.val = "undefined"]_vars

\* the events of an object alternate, beginning with 'hidden'
Alternates(events) ==
    \A i \in DOMAIN events : events[i] = IF i % 2 = 1 THEN "hidden" ELSE "shown"

\* C30: an assignment to visible dispatches one event, 'shown' or 'hidden'
\* after the value, exactly when the value differs from the current one;
\* the events of each object alternate from 'hidden' on; reading visible
\* returns the last value assigned (true before any assignment).
C30_VisibleEvents ==
    [][/\ \A o \in VisibleObjects, v \in BOOLEAN :
             SetVisible(o, v) =>
                 /\ _visible'[o] = v
                 /\ dispatched'[o] = IF v # _visible[o]
                                     THEN Append(dispatched[o], EventType(v))
                                     ELSE dispatched[o]
                 /\ \A p \in VisibleObjects \ {o} :
                       _visible'[p] = _visible[p] /\ dispatched'[p] = dispatched[p]
       /\ \A o \in VisibleObjects :
             /\ GetVisible(o) => lret'.val = _visible[o]
             /\ Alternates(dispatched'[o])
             /\ _visible'[o] = (Len(dispatched'[o]) % 2 = 0)
       /\ (lret'.op # "set visible") => (_visible' = _visible /\ dispatched' = dispatched)]_vars

C30_Witness ==
    /\ lret.op = "get visible"
    /\ lret.val = TRUE
    /\ dispatched[lret.object] = <<"hidden", "shown">>

-----------------------------------------------------------------------------
(* VectorSource: the caches of loaded features *)

\* fetcher invocations a run follows
MaxPromises == 2
\* capacity of one LRUCache: new LRUCache({ max: 500 })
LruMax == 500

\* out.crs of the layers, and the data keys of the extents requested
CrsNames == {"EPSG:4326", "EPSG:3857"}
DataKeys == {"z0r0c0", "z1r0c0"}

\* LRUCache: entries <<key, value>> from the least to the most recently used
LruHas(cache, key) == OHas(cache, key)
\* cache.get(key): the value or undefined; a hit makes the entry the most recent
LruGet(cache, key) ==
    IF LruHas(cache, key)
    THEN [value |-> Some(OGet(cache, key)),
          cache |-> Append(ODelete(cache, key), <<key, OGet(cache, key)>>)]
    ELSE [value |-> Undefined, cache |-> cache]
\* cache.set(key, value): the least recently used entry leaves a full cache
LruSet(cache, key, value) ==
    LET c == Append(ODelete(cache, key), <<key, value>>) IN
    IF Len(c) > LruMax THEN Tail(c) ELSE c

\* mutant: a rejected promise counts as a miss
CacheMiss_RetryRejected(features, proms) ==
    ~IsDef(features) \/ proms[features[1]] = "rejected"

\* features === undefined
CacheMiss(features, proms) == ~IsDef(features)

SRet(op, val, promise) == [op |-> op, val |-> val, promise |-> promise]

\* VectorSource.loadData(extent, out) for the data key of extent and out.crs
loadData(caches, proms, key, crs) ==
    IF ~OHas(caches, crs)
    THEN \* cache is undefined: cache.get raises
         [val |-> "TypeError", promise |-> 0, caches |-> caches, promises |-> proms]
    ELSE LET got == LruGet(OGet(caches, crs), key) IN
         IF CacheMiss(got.value, proms)
         THEN LET features == Len(proms) + 1 IN
              [val |-> "promise", promise |-> features,
               caches |-> OSet(caches, crs, LruSet(got.cache, key, features)),
               promises |-> Append(proms, "pending")]
         ELSE [val |-> "promise", promise |-> got.value[1],
               caches |-> OSet(caches, crs, got.cache), promises |-> proms]

SourceInit ==
    /\ DagFresh /\ MergeIdle /\ EvalIdle /\ LayerIdle /\ BuildIdle
    /\ _featuresCaches = <<>>
    /\ promises = <<>>
    /\ sret = SRet("new", "object", 0)

LoadData(key, crs) ==
    LET r == loadData(_featuresCaches, promises, key, crs) IN
    /\ Len(r.promises) <= MaxPromises
    /\ _featuresCaches' = r.caches
    /\ promises' = r.promises
    /\ sret' = SRet("loadData", r.val, r.promise)
    /\ UNCHANGED <<dagVars, mergeVars, evalVars, layerVars, buildVars>>

OnLayerAdded(crs) ==
    /\ _featuresCaches' = IF ~OHas(_featuresCaches, crs)
                          THEN OSet(_featuresCaches, crs, <<>>)
                          ELSE _featuresCaches
    /\ sret' = SRet("onLayerAdded", "undefined", 0)
    /\ UNCHANGED promises
    /\ UNCHANGED <<dagVars, mergeVars, evalVars, layerVars, buildVars>>

OnLayerRemoved(unusedCrs) ==
    /\ _featuresCaches' = IF OHas(_featuresCaches, unusedCrs)
                          THEN ODelete(_featuresCaches, unusedCrs)
                          ELSE _featuresCaches
    /\ sret' = SRet("onLayerRemoved", "undefined", 0)
    /\ UNCHANGED promises
    /\ UNCHANGED <<dagVars, mergeVars, evalVars, layerVars, buildVars>>

\* the fetch and the parsing behind a promise end: the promise is fulfilled,
\* or rejected with the error handlingError throws again
Settle(p, outcome) ==
    /\ p \in DOMAIN promises
    /\ promises[p] = "pending"
    /\ promises' = [promises EXCEPT ![p] = outcome]
    /\ sret' = SRet("settle", outcome, p)
    /\ UNCHANGED _featuresCaches
    /\ UNCHANGED <<dagVars, mergeVars, evalVars, layerVars, buildVars>>

SourceNext ==
    \/ \E key \in DataKeys, crs \in CrsNames : LoadData(key, crs)
    \/ \E crs \in CrsNames : OnLayerAdded(crs)
    \/ \E crs \in CrsNames : OnLayerRemoved(crs)
    \/ \E p \in 1..MaxPromises, outcome \in {"fulfilled", "rejected"} : Settle(p, outcome)

SpecSource == SourceInit /\ [][SourceNext]_vars

-----------------------------------------------------------------------------
(* Claims about the source *)

\* the promise cached for key under crs, if any
CachedPromise(caches, crs, key) ==
    IF OHas(caches, crs) /\ LruHas(OGet(caches, crs), key)
    THEN Some(OGet(OGet(caches, crs), key))
    ELSE Undefined

\* C29: with the cache of the crs created, a loadData for a key whose entry
\* is in the cache returns the cached promise and does not invoke the
\* fetcher, whether that promise is pending, fulfilled or rejected; a
\* loadData for a key without entry invokes the fetcher once and caches the
\* promise it returns; the settling of a promise removes no entry.
C29_LoadedOnce ==
    [][/\ \A key \in DataKeys, crs \in CrsNames :
             (LoadData(key, crs) /\ OHas(_featuresCaches, crs)) =>
                 /\ sret'.val = "promise"
                 /\ CachedPromise(_featuresCaches', crs, key) = Some(sret'.promise)
                 /\ IF IsDef(CachedPromise(_featuresCaches, crs, key))
                    THEN /\ promises' = promises
                         /\ sret'.promise = CachedPromise(_featuresCaches, crs, key)[1]
                    ELSE /\ Len(promises') = Len(promises) + 1
                         /\ sret'.promise = Len(promises')
       /\ (sret'.op = "settle") => _featuresCaches' = _featuresCaches]_vars

C29_Witness ==
    /\ sret.op = "loadData"
    /\ sret.promise = 1
    /\ promises = <<"rejected">>

-----------------------------------------------------------------------------
(* buildFragmentShader as a function of the fragment parts *)

IncludeChoices == {Undefined, Some(<<T_packing>>), Some(<<T_common, T_packing>>)}
DefineChoices ==
    {Undefined,
     Some(<< <<T_K, NumberValue(T_1)>> >>),
     Some(<< <<T_K, NumberValue(T_2)>>, <<T_A, StringValue(<<"1", ".", "0">>)>> >>)}
UniformChoices ==
    {Undefined,
     Some(<< <<T_u, UType("Number")>> >>),
     Some(<< <<T_u, UType("Vector2")>>, <<T_uTexture, UDep("S", DefaultIoName)>> >>)}
\* no auxiliary code, some, and the empty string
AuxCodeChoices == {Undefined, Some(T_auxG), Some(<<>>)}
MainChoices == {T_mainDefault, T_mainLines, T_mainK}

PartsChoices ==
    {Parts(i, d, u, a, m) : i \in IncludeChoices, d \in DefineChoices, u \in UniformChoices,
                            a \in AuxCodeChoices, m \in MainChoices}

BuildInit ==
    /\ DagFresh /\ MergeIdle /\ EvalIdle /\ LayerIdle /\ SourceIdle
    /\ shaderParts = PartsDefault
    /\ builtShader = <<>>

\* ScreenShaderNode.buildFragmentShader(parts)
BuildShader(parts) ==
    /\ shaderParts' = parts
    /\ builtShader' = BuildFragmentShader(BaseHeap, parts).text
    /\ UNCHANGED <<dagVars, mergeVars, evalVars, layerVars, sourceVars>>

BuildNext == \E parts \in PartsChoices : BuildShader(parts)

SpecBuild == BuildInit /\ [][BuildNext]_vars

-----------------------------------------------------------------------------
(* Claims about the text of a program *)

\* where pat first occurs in text at or after from, 0 when it does not
NextIndex(text, pat, from) ==
    LET hits == {i \in from..(Len(text) - Len(pat) + 1) : StartsWithAt(text, i, pat)} IN
    IF hits = {} THEN 0 ELSE CHOOSE i \in hits : \A j \in hits : i <= j

RECURSIVE InOrder(_, _, _)
\* the sections occur in text one after the other, from position from on
InOrder(text, sections, from) ==
    IF sections = <<>> THEN TRUE
    ELSE LET i == NextIndex(text, sections[1], from) IN
         i > 0 /\ InOrder(text, Tail(sections), i + Len(sections[1]))

\* the sections the parts give rise to, in the order of the claim
SectionsOf(parts) ==
    LET includes == OrElse(parts.includes, <<>>)
        defines == OrElse(parts.defines, <<>>)
        uniforms == OrElse(parts.uniforms, <<>>)
    IN [i \in DOMAIN includes |-> T_includeOpen \o includes[i] \o T_includeClose]
       \o [i \in DOMAIN defines |-> T_define \o defines[i][1] \o T_space \o defines[i][2].s]
       \o <<T_varying, T_uTDiffuse, T_uTDepth, T_uResolution, T_uCameraNear, T_uCameraFar>>
       \o [i \in DOMAIN uniforms |-> T_space \o uniforms[i][1] \o T_semicolon]
       \o (IF IsDef(parts.auxCode) THEN <<parts.auxCode[1]>> ELSE <<>>)
       \o <<T_shaderOpen, SplitJoin(parts.main), T_braceClose, T_mainOpen, T_entry,
            T_braceClose>>

\* C25: the text returned for any parts begins with the precision
\* declaration and then holds, one after the other, the include directives,
\* the define directives, the coordinate and built-in uniform declarations,
\* the user uniform declarations, the auxiliary code, the wrapper function
\* with the main body, and the entry point.
C25_SectionOrder ==
    builtShader # <<>> =>
        /\ StartsWithAt(builtShader, 1, T_precision)
        /\ InOrder(builtShader, SectionsOf(shaderParts), Len(T_precision) + 1)

C25_Witness ==
    /\ builtShader # <<>>
    /\ IsDef(shaderParts.includes) /\ IsDef(shaderParts.defines)
    /\ IsDef(shaderParts.uniforms) /\ shaderParts.auxCode = Some(T_auxG)

-----------------------------------------------------------------------------
(* Claims about the valid mark of a DirectedAcyclicGraph *)

\* C26: a graph marked valid has no dependency cycle reachable from its
\* sink; an insert that registers its node leaves the graph unmarked; the
\* mark is only set by a validate that completed on a graph without such a
\* cycle.
C26_ValidMeansAcyclic ==
    /\ (_valid => ~CycleFromSink(nodes, out_node))
    /\ [][/\ _valid' => ~CycleFromSink(nodes', out_node')
          /\ (ret'.op = "set" /\ ret'.val = "Map") => ~_valid'
          /\ (~_valid /\ _valid') =>
                /\ ret'.op = "validate"
                /\ ret'.val = "undefined"
                /\ ~CycleFromSink(nodes', out_node')]_vars

C26_Witness ==
    /\ ret = Ret("set", "Map")
    /\ CycleFromSink(nodes, out_node)
    /\ ~_valid

-----------------------------------------------------------------------------
(* Claims about repeated fusion and about the inputs it leaves *)

\* the number of registered nodes
NodeCount(g) == Cardinality(DOMAIN g.nodes)

\* C27: a fusion that succeeds leaves one registered node less, and a fusion
\* that fails leaves the graph and the node objects as they were, so that
\* at most (number of nodes - 1) fusions succeed and failed attempts do not
\* change what the next attempt sees.
C27_FusionTerminates ==
    [][\A c \in ShaderIds, p \in ShaderIds :
          Merge(c, p) =>
              IF mret'.val = "ok"
              THEN NodeCount(graph') = NodeCount(graph) - 1
              ELSE graph' = graph /\ heap' = heap]_vars

\* every Dependency in the inputs of a registered node names a registered
\* producer
InputsRegistered(g, hp) ==
    \A k \in DOMAIN g.nodes : \A i \in DOMAIN hp[g.nodes[k]].inputs :
        LET dep == hp[g.nodes[k]].inputs[i].dep IN
        IsDef(dep) => \E j \in DOMAIN g.nodes : g.nodes[j] = dep[1].node

\* C28: a successful fusion of a graph in which every Dependency names a
\* registered producer leaves such a graph; no input of the merged node
\* names the removed parent.
C28_NoDanglingDependency ==
    [][\A c \in ShaderIds, p \in ShaderIds :
          (Merge(c, p) /\ mret'.val = "ok" /\ InputsRegistered(graph, heap)) =>
              /\ InputsRegistered(graph', heap')
              /\ ~DependsOn(heap', c, p)]_vars

====
